---- MODULE Spec2Model ----
(***************************************************************************)
(* Morse code translator: the Code Table, english_to_morse,                *)
(* morse_to_english with its two decoding regimes, and validate_morse_code.*)
(* A Python string is a sequence of one-character strings.                 *)
(***************************************************************************)
EXTENDS Integers, Sequences, FiniteSets, TLC

(* ------------------------------------------------------------------ *)
(* Bounds of the explored inputs.                                      *)
(* ------------------------------------------------------------------ *)
MaxTextLen == 4
MaxCodeLen == 4
MaxWordLen == 2

(* Characters the explored English texts are drawn from: supported      *)
(* letters in both cases, a digit, the space, an unsupported character  *)
(* and a whitespace character that is not the space.                    *)
TextChars == {"S", "o", "e", "1", " ", "#", "\t"}

(* Characters the explored Morse strings are drawn from.                *)
CodeChars == {".", "-", " ", "/", "\t", "x"}

(* Letters and digits the explored multi-character words are drawn from.*)
WordChars == {"S", "O", "E", "T", "A", "N", "1"}

SeqsUpTo(S, n) == UNION {[1..k -> S] : k \in 0..n}

(* ------------------------------------------------------------------ *)
(* Code Table                                                          *)
(* ------------------------------------------------------------------ *)
MORSE_CODE_ITEMS ==
    <<
       <<"A", <<".", "-">> >>,
       <<"B", <<"-", ".", ".", ".">> >>,
       <<"C", <<"-", ".", "-", ".">> >>,
       <<"D", <<"-", ".", ".">> >>,
       <<"E", <<".">> >>,
       <<"F", <<".", ".", "-", ".">> >>,
       <<"G", <<"-", "-", ".">> >>,
       <<"H", <<".", ".", ".", ".">> >>,
       <<"I", <<".", ".">> >>,
       <<"J", <<".", "-", "-", "-">> >>,
       <<"K", <<"-", ".", "-">> >>,
       <<"L", <<".", "-", ".", ".">> >>,
       <<"M", <<"-", "-">> >>,
       <<"N", <<"-", ".">> >>,
       <<"O", <<"-", "-", "-">> >>,
       <<"P", <<".", "-", "-", ".">> >>,
       <<"Q", <<"-", "-", ".", "-">> >>,
       <<"R", <<".", "-", ".">> >>,
       <<"S", <<".", ".", ".">> >>,
       <<"T", <<"-">> >>,
       <<"U", <<".", ".", "-">> >>,
       <<"V", <<".", ".", ".", "-">> >>,
       <<"W", <<".", "-", "-">> >>,
       <<"X", <<"-", ".", ".", "-">> >>,
       <<"Y", <<"-", ".", "-", "-">> >>,
       <<"Z", <<"-", "-", ".", ".">> >>,
       <<"1", <<".", "-", "-", "-", "-">> >>,
       <<"2", <<".", ".", "-", "-", "-">> >>,
       <<"3", <<".", ".", ".", "-", "-">> >>,
       <<"4", <<".", ".", ".", ".", "-">> >>,
       <<"5", <<".", ".", ".", ".", ".">> >>,
       <<"6", <<"-", ".", ".", ".", ".">> >>,
       <<"7", <<"-", "-", ".", ".", ".">> >>,
       <<"8", <<"-", "-", "-", ".", ".">> >>,
       <<"9", <<"-", "-", "-", "-", ".">> >>,
       <<"0", <<"-", "-", "-", "-", "-">> >>,
       <<" ", <<"/">> >>
    >>

Symbols == {MORSE_CODE_ITEMS[i][1] : i \in DOMAIN MORSE_CODE_ITEMS}

Patterns == {MORSE_CODE_ITEMS[i][2] : i \in DOMAIN MORSE_CODE_ITEMS}

LastIndex(S) == CHOOSE i \in S : \A j \in S : j <= i

(* A dict literal keeps, for a repeated key, the last value written.    *)
MORSE_CODE_DICT ==
    [c \in Symbols |->
        MORSE_CODE_ITEMS[LastIndex({i \in DOMAIN MORSE_CODE_ITEMS :
                                        MORSE_CODE_ITEMS[i][1] = c})][2]]

(* {morse: letter for letter, morse in MORSE_CODE_DICT.items()}: for a  *)
(* repeated pattern the last letter in insertion order wins.            *)
(* Variant: the comprehension keeps the letter as the key. *)
REVERSE_MORSE_DICT_keyed_by_letter ==
    [c \in Symbols |-> MORSE_CODE_DICT[c]]

REVERSE_MORSE_DICT ==
    [p \in Patterns |->
        MORSE_CODE_ITEMS[LastIndex({i \in DOMAIN MORSE_CODE_ITEMS :
                                        MORSE_CODE_ITEMS[i][2] = p})][1]]

(* the reference chart of the web page: letters, numbers, punctuation *)
morseCode ==
    <<
       <<"A", <<".", "-">> >>,
       <<"B", <<"-", ".", ".", ".">> >>,
       <<"C", <<"-", ".", "-", ".">> >>,
       <<"D", <<"-", ".", ".">> >>,
       <<"E", <<".">> >>,
       <<"F", <<".", ".", "-", ".">> >>,
       <<"G", <<"-", "-", ".">> >>,
       <<"H", <<".", ".", ".", ".">> >>,
       <<"I", <<".", ".">> >>,
       <<"J", <<".", "-", "-", "-">> >>,
       <<"K", <<"-", ".", "-">> >>,
       <<"L", <<".", "-", ".", ".">> >>,
       <<"M", <<"-", "-">> >>,
       <<"N", <<"-", ".">> >>,
       <<"O", <<"-", "-", "-">> >>,
       <<"P", <<".", "-", "-", ".">> >>,
       <<"Q", <<"-", "-", ".", "-">> >>,
       <<"R", <<".", "-", ".">> >>,
       <<"S", <<".", ".", ".">> >>,
       <<"T", <<"-">> >>,
       <<"U", <<".", ".", "-">> >>,
       <<"V", <<".", ".", ".", "-">> >>,
       <<"W", <<".", "-", "-">> >>,
       <<"X", <<"-", ".", ".", "-">> >>,
       <<"Y", <<"-", ".", "-", "-">> >>,
       <<"Z", <<"-", "-", ".", ".">> >>,
       <<"0", <<"-", "-", "-", "-", "-">> >>,
       <<"1", <<".", "-", "-", "-", "-">> >>,
       <<"2", <<".", ".", "-", "-", "-">> >>,
       <<"3", <<".", ".", ".", "-", "-">> >>,
       <<"4", <<".", ".", ".", ".", "-">> >>,
       <<"5", <<".", ".", ".", ".", ".">> >>,
       <<"6", <<"-", ".", ".", ".", ".">> >>,
       <<"7", <<"-", "-", ".", ".", ".">> >>,
       <<"8", <<"-", "-", "-", ".", ".">> >>,
       <<"9", <<"-", "-", "-", "-", ".">> >>,
       <<".", <<".", "-", ".", "-", ".", "-">> >>,
       <<",", <<"-", "-", ".", ".", "-", "-">> >>,
       <<"?", <<".", ".", "-", "-", ".", ".">> >>,
       <<"'", <<".", "-", "-", "-", "-", ".">> >>,
       <<"!", <<"-", ".", "-", ".", "-", "-">> >>,
       <<"/", <<"-", ".", ".", "-", ".">> >>,
       <<"(", <<"-", ".", "-", "-", ".">> >>,
       <<")", <<"-", ".", "-", "-", ".", "-">> >>,
       <<"&", <<".", "-", ".", ".", ".">> >>,
       <<":", <<"-", "-", "-", ".", ".", ".">> >>,
       <<";", <<"-", ".", "-", ".", "-", ".">> >>,
       <<"=", <<"-", ".", ".", ".", "-">> >>,
       <<"+", <<".", "-", ".", "-", ".">> >>,
       <<"-", <<"-", ".", ".", ".", ".", "-">> >>,
       <<"_", <<".", ".", "-", "-", ".", "-">> >>,
       <<"\"", <<".", "-", ".", ".", "-", ".">> >>,
       <<"$", <<".", ".", ".", "-", ".", ".", "-">> >>,
       <<"@", <<".", "-", "-", ".", "-", ".">> >>
    >>

ChartChars == {morseCode[i][1] : i \in DOMAIN morseCode}

ChartPatterns == {morseCode[i][2] : i \in DOMAIN morseCode}

(* ------------------------------------------------------------------ *)
(* String helpers of the Python runtime                                *)
(* ------------------------------------------------------------------ *)
Whitespace == {" ", "\t", "\n"}

LowerLetters ==
    <<"a", "b", "c", "d", "e", "f", "g", "h", "i", "j", "k", "l", "m",
      "n", "o", "p", "q", "r", "s", "t", "u", "v", "w", "x", "y", "z">>

UpperLetters ==
    <<"A", "B", "C", "D", "E", "F", "G", "H", "I", "J", "K", "L", "M",
      "N", "O", "P", "Q", "R", "S", "T", "U", "V", "W", "X", "Y", "Z">>

(* U+212A KELVIN SIGN, one character of a Python str: an upper-case      *)
(* letter outside ASCII whose lower-case form is the ASCII letter k.     *)
KelvinSign == "KELVIN SIGN"

UpperChar(c) ==
    IF \E i \in DOMAIN LowerLetters : LowerLetters[i] = c
    THEN UpperLetters[CHOOSE i \in DOMAIN LowerLetters : LowerLetters[i] = c]
    ELSE c

LowerChar(c) ==
    IF \E i \in DOMAIN UpperLetters : UpperLetters[i] = c
    THEN LowerLetters[CHOOSE i \in DOMAIN UpperLetters : UpperLetters[i] = c]
    ELSE IF c = KelvinSign THEN "k" ELSE c

upper(s) == [i \in DOMAIN s |-> UpperChar(s[i])]

lower(s) == [i \in DOMAIN s |-> LowerChar(s[i])]

RECURSIVE lstrip(_)
lstrip(s) ==
    IF s # <<>> /\ Head(s) \in Whitespace THEN lstrip(Tail(s)) ELSE s

RECURSIVE rstrip(_)
rstrip(s) ==
    IF s # <<>> /\ s[Len(s)] \in Whitespace
    THEN rstrip(SubSeq(s, 1, Len(s) - 1))
    ELSE s

strip(s) == rstrip(lstrip(s))

(* sep.join(parts) for a one-character separator *)
RECURSIVE join(_, _)
join(sep, parts) ==
    IF parts = <<>> THEN <<>>
    ELSE IF Len(parts) = 1 THEN parts[1]
    ELSE parts[1] \o <<sep>> \o join(sep, Tail(parts))

(* ''.join(parts) *)
RECURSIVE Flatten(_)
Flatten(parts) ==
    IF parts = <<>> THEN <<>> ELSE Head(parts) \o Flatten(Tail(parts))

(* s.split(sep) for a one-character separator: empty fields are kept *)
RECURSIVE split(_, _)
split(s, sep) ==
    IF \A i \in DOMAIN s : s[i] # sep THEN <<s>>
    ELSE LET k == CHOOSE i \in DOMAIN s :
                      s[i] = sep /\ \A j \in 1..(i - 1) : s[j] # sep
         IN  <<SubSeq(s, 1, k - 1)>> \o split(SubSeq(s, k + 1, Len(s)), sep)

(* ------------------------------------------------------------------ *)
(* Encoder                                                             *)
(* ------------------------------------------------------------------ *)
(* Variant: an unsupported character leaves an empty entry behind. *)
RECURSIVE MorseResultOf_blank_unsupported(_)
MorseResultOf_blank_unsupported(english_text) ==
    IF english_text = <<>> THEN <<>>
    ELSE IF Head(english_text) \in DOMAIN MORSE_CODE_DICT
         THEN <<MORSE_CODE_DICT[Head(english_text)]>>
                  \o MorseResultOf_blank_unsupported(Tail(english_text))
         ELSE << <<>> >> \o MorseResultOf_blank_unsupported(Tail(english_text))

RECURSIVE MorseResultOf(_)
MorseResultOf(english_text) ==
    IF english_text = <<>> THEN <<>>
    ELSE IF Head(english_text) \in DOMAIN MORSE_CODE_DICT
         THEN <<MORSE_CODE_DICT[Head(english_text)]>>
                  \o MorseResultOf(Tail(english_text))
         ELSE MorseResultOf(Tail(english_text))

(* Variant: the text is not upper-cased before the lookup. *)
english_to_morse_no_upper(english_text) ==
    IF english_text = <<>> THEN <<>>
    ELSE join(" ", MorseResultOf(strip(english_text)))

(* Variant: the patterns are joined with no separator. *)
english_to_morse_no_separator(english_text) ==
    IF english_text = <<>> THEN <<>>
    ELSE Flatten(MorseResultOf(strip(upper(english_text))))

english_to_morse(english_text) ==
    IF english_text = <<>> THEN <<>>
    ELSE join(" ", MorseResultOf(strip(upper(english_text))))

(* ------------------------------------------------------------------ *)
(* Decoder                                                             *)
(* ------------------------------------------------------------------ *)
(* Value a failed dictionary lookup leaves in place of a letter. *)
KeyError == "KeyError"

DictGet(dict, key) == IF key \in DOMAIN dict THEN dict[key] ELSE KeyError

RECURSIVE FindAllTranslations(_, _, _)
RECURSIVE FindAllFrom(_, _, _, _)

(* Variant: a unit that is no known pattern is passed over. *)
FindAllFrom_skip_unknown(morse_units, index, current_translation, end_index) ==
    IF end_index > Len(morse_units) THEN <<>>
    ELSE LET potential_pattern ==
                 join(" ", SubSeq(morse_units, index + 1, end_index))
             remaining_translations ==
                 IF potential_pattern \in DOMAIN REVERSE_MORSE_DICT
                 THEN FindAllTranslations(morse_units, end_index,
                          current_translation
                              \o <<DictGet(REVERSE_MORSE_DICT, potential_pattern)>>)
                 ELSE IF end_index = index + 1
                      THEN FindAllTranslations(morse_units, end_index,
                                               current_translation)
                      ELSE <<>>
         IN  remaining_translations
                 \o FindAllFrom(morse_units, index, current_translation,
                                end_index + 1)

(* Variant: the pattern is looked up without the membership test. *)
FindAllFrom_unguarded(morse_units, index, current_translation, end_index) ==
    IF end_index > index + 1 \/ end_index > Len(morse_units) THEN <<>>
    ELSE FindAllTranslations(morse_units, end_index,
             current_translation
                 \o <<DictGet(REVERSE_MORSE_DICT,
                              join(" ", SubSeq(morse_units, index + 1, end_index)))>>)

(* the body of the for loop of _find_all_translations, from end_index on *)
FindAllFrom(morse_units, index, current_translation, end_index) ==
    IF end_index > Len(morse_units) THEN <<>>
    ELSE LET potential_pattern ==
                 join(" ", SubSeq(morse_units, index + 1, end_index))
             remaining_translations ==
                 IF potential_pattern \in DOMAIN REVERSE_MORSE_DICT
                 THEN LET letter == DictGet(REVERSE_MORSE_DICT, potential_pattern)
                          new_translation ==
                              IF letter = " "
                              THEN current_translation \o <<" ">>
                              ELSE current_translation \o <<letter>>
                      IN  FindAllTranslations(morse_units, end_index,
                                              new_translation)
                 ELSE <<>>
         IN  remaining_translations
                 \o FindAllFrom(morse_units, index, current_translation,
                                end_index + 1)

FindAllTranslations(morse_units, index, current_translation) ==
    IF index >= Len(morse_units) THEN <<current_translation>>
    ELSE FindAllFrom(morse_units, index, current_translation, index + 1)

(* Longest dot/dash run tried as one pattern. *)
MaxPatternLen == 6

Min(a, b) == IF a < b THEN a ELSE b

RECURSIVE AmbiguousRec(_, _, _)
RECURSIVE AmbiguousFrom(_, _, _, _)

(* Variant: the longest candidate pattern is tried first. *)
AmbiguousFrom_longest_first(morse_chars, index, current_translation, end_index) ==
    IF end_index > Min(Len(morse_chars), index + MaxPatternLen) THEN <<>>
    ELSE LET potential_pattern == SubSeq(morse_chars, index + 1, end_index)
             remaining_translations ==
                 IF potential_pattern \in DOMAIN REVERSE_MORSE_DICT
                 THEN AmbiguousRec(morse_chars, end_index,
                          current_translation
                              \o <<DictGet(REVERSE_MORSE_DICT, potential_pattern)>>)
                 ELSE <<>>
         IN  AmbiguousFrom(morse_chars, index, current_translation,
                           end_index + 1)
                 \o remaining_translations

AmbiguousFrom(morse_chars, index, current_translation, end_index) ==
    IF end_index > Min(Len(morse_chars), index + MaxPatternLen) THEN <<>>
    ELSE LET potential_pattern == SubSeq(morse_chars, index + 1, end_index)
             remaining_translations ==
                 IF potential_pattern \in DOMAIN REVERSE_MORSE_DICT
                 THEN AmbiguousRec(morse_chars, end_index,
                          current_translation
                              \o <<DictGet(REVERSE_MORSE_DICT, potential_pattern)>>)
                 ELSE <<>>
         IN  remaining_translations
                 \o AmbiguousFrom(morse_chars, index, current_translation,
                                  end_index + 1)

AmbiguousRec(morse_chars, index, current_translation) ==
    IF index >= Len(morse_chars) THEN <<current_translation>>
    ELSE AmbiguousFrom(morse_chars, index, current_translation, index + 1)

(* repeats discarded, first occurrence kept in place *)
RECURSIVE StableDedup(_)
StableDedup(results) ==
    IF Len(results) <= 1 THEN results
    ELSE LET half  == Len(results) \div 2
             front == StableDedup(SubSeq(results, 1, half))
             seen  == {front[i] : i \in DOMAIN front}
             back  == StableDedup(SubSeq(results, half + 1, Len(results)))
         IN  front \o SelectSeq(back, LAMBDA r : r \notin seen)

FindAmbiguousTranslations(morse_chars, index, current_translation) ==
    StableDedup(AmbiguousRec(morse_chars, index, current_translation))

(* Variant: the empty units of repeated spaces are kept. *)
NonEmptyUnits_keep_all(morse_units) == morse_units

NonEmptyUnits(morse_units) == SelectSeq(morse_units, LAMBDA unit : unit # <<>>)

(* Variant: an input without a space is decoded as a single unit. *)
morse_to_english_single_unit(morse_text) ==
    IF morse_text = <<>> THEN << <<>> >>
    ELSE LET stripped == strip(morse_text)
         IN  IF stripped = <<>> THEN << <<>> >>
             ELSE FindAllTranslations(
                      NonEmptyUnits(split(stripped, " ")), 0, <<>>)

(* Variant: an input that strip() leaves empty gives no result. *)
morse_to_english_empty_list(morse_text) ==
    IF morse_text = <<>> THEN << <<>> >>
    ELSE LET stripped == strip(morse_text)
         IN  IF stripped = <<>> THEN <<>>
             ELSE IF \E i \in DOMAIN stripped : stripped[i] = " "
                  THEN FindAllTranslations(
                           NonEmptyUnits(split(stripped, " ")), 0, <<>>)
                  ELSE FindAmbiguousTranslations(stripped, 0, <<>>)

(* Variant: the unspaced search starts at the second character. *)
morse_to_english_off_by_one(morse_text) ==
    IF morse_text = <<>> THEN << <<>> >>
    ELSE LET stripped == strip(morse_text)
         IN  IF stripped = <<>> THEN << <<>> >>
             ELSE IF \E i \in DOMAIN stripped : stripped[i] = " "
                  THEN FindAllTranslations(
                           NonEmptyUnits(split(stripped, " ")), 0, <<>>)
                  ELSE FindAmbiguousTranslations(stripped, 1, <<>>)

morse_to_english(morse_text) ==
    IF morse_text = <<>> THEN << <<>> >>
    ELSE LET stripped == strip(morse_text)
         IN  IF stripped = <<>> THEN << <<>> >>
             ELSE IF \E i \in DOMAIN stripped : stripped[i] = " "
                  THEN FindAllTranslations(
                           NonEmptyUnits(split(stripped, " ")), 0, <<>>)
                  ELSE FindAmbiguousTranslations(stripped, 0, <<>>)

(* ------------------------------------------------------------------ *)
(* Validation                                                          *)
(* ------------------------------------------------------------------ *)
valid_chars == {".", "-", " ", "/"}

(* Variant: the text is stripped before its characters are tested. *)
validate_morse_code_stripped(morse_text) ==
    IF morse_text = <<>> THEN TRUE
    ELSE \A i \in DOMAIN strip(morse_text) : strip(morse_text)[i] \in valid_chars

validate_morse_code(morse_text) ==
    IF morse_text = <<>> THEN TRUE
    ELSE \A i \in DOMAIN morse_text : morse_text[i] \in valid_chars

(* ------------------------------------------------------------------ *)
(* Request schemas and translation endpoints                           *)
(* ------------------------------------------------------------------ *)
MaxRequestTextLen == 1000

MaxRequestMorseLen == 5000

HTTP_200_OK == 200

HTTP_400_BAD_REQUEST == 400

HTTP_422_UNPROCESSABLE_ENTITY == 422

HTTP_500_INTERNAL_SERVER_ERROR == 500

NoTranslatableDetail == "No translatable characters found in input text"

InvalidFormatDetail ==
    "Invalid Morse code format. Use only dots (.), dashes (-), spaces, and slashes (/)."

NoValidTranslationDetail ==
    "No valid English translations found for the provided Morse code"

(* f"Translation failed: {str(e)}": only the fixed prefix is kept *)
TranslationFailedDetail == "Translation failed"

(* an exception leaving the handler, as the client sees it *)
HTTPException(status_code, detail) ==
    [raised |-> TRUE, status |-> status_code, detail |-> detail,
     output |-> <<>>, is_list |-> FALSE]

(* 422 of the schema validation, raised before the handler runs *)
RequestValidationError ==
    HTTPException(HTTP_422_UNPROCESSABLE_ENTITY, "Validation error")

(* TranslationResponse(..., output=output, success=True) *)
TranslationResponse(output, is_list) ==
    [raised |-> FALSE, status |-> HTTP_200_OK, detail |-> "",
     output |-> output, is_list |-> is_list]

(* EnglishToMorseRequest: the Field bounds and validate_text *)
EnglishToMorseRequestValid(text) ==
    /\ Len(text) >= 1
    /\ Len(text) <= MaxRequestTextLen
    /\ strip(text) # <<>>

(* MorseToEnglishRequest: the Field bounds and validate_morse_code *)
MorseToEnglishRequestValid(morse_code) ==
    /\ Len(morse_code) >= 1
    /\ Len(morse_code) <= MaxRequestMorseLen
    /\ strip(morse_code) # <<>>
    /\ \A i \in DOMAIN strip(morse_code) : strip(morse_code)[i] \in valid_chars

(* the try block of translate_english_to_morse; request_text is the     *)
(* stripped text the schema hands over                                  *)
EnglishToMorseTry(request_text) ==
    LET morse_result == english_to_morse(request_text)
    IN  IF morse_result = <<>>
        THEN HTTPException(HTTP_400_BAD_REQUEST, NoTranslatableDetail)
        ELSE TranslationResponse(morse_result, FALSE)

(* except Exception as e: HTTPException is an Exception, so the 400     *)
(* raised inside the try block is caught here as well                   *)
translate_english_to_morse(request_text) ==
    LET attempt == EnglishToMorseTry(request_text)
    IN  IF attempt.raised
        THEN HTTPException(HTTP_500_INTERNAL_SERVER_ERROR,
                           TranslationFailedDetail)
        ELSE attempt

(* not english_results or (len(english_results) == 1 and not english_results[0]) *)
NothingTranslated(english_results) ==
    \/ english_results = <<>>
    \/ (Len(english_results) = 1 /\ english_results[1] = <<>>)

(* Variant: the results are collected from the last to the first. *)
FilteredResults_reversed(english_results) ==
    LET kept == StableDedup(SelectSeq(english_results, LAMBDA r : r # <<>>))
    IN  [i \in DOMAIN kept |-> kept[Len(kept) + 1 - i]]

(* the loop building filtered_results: empty results and repeats are    *)
(* left out, the first occurrence stays in place                        *)
FilteredResults(english_results) ==
    StableDedup(SelectSeq(english_results, LAMBDA r : r # <<>>))

(* Variant: the output is always the list. *)
MorseOutput_always_list(filtered_results) ==
    TranslationResponse(filtered_results, TRUE)

(* output = filtered_results[0] if len(filtered_results) == 1 else filtered_results *)
MorseOutput(filtered_results) ==
    IF Len(filtered_results) = 1
    THEN TranslationResponse(filtered_results[1], FALSE)
    ELSE TranslationResponse(filtered_results, TRUE)

(* the try block of translate_morse_to_english *)
MorseToEnglishTry(request_morse_code) ==
    IF ~validate_morse_code(request_morse_code)
    THEN HTTPException(HTTP_400_BAD_REQUEST, InvalidFormatDetail)
    ELSE LET english_results == morse_to_english(request_morse_code)
         IN  IF NothingTranslated(english_results)
             THEN HTTPException(HTTP_400_BAD_REQUEST, NoValidTranslationDetail)
             ELSE MorseOutput(FilteredResults(english_results))

(* the except clauses of translate_morse_to_english: the domain error   *)
(* raised in the try block reaches the client as it was raised          *)
MorseToEnglishExcept(attempt) == attempt

translate_morse_to_english(request_morse_code) ==
    MorseToEnglishExcept(MorseToEnglishTry(request_morse_code))

(* ------------------------------------------------------------------ *)
(* Frontend API service (services/api.js).  A message is the sequence  *)
(* of the string pieces it is concatenated from.                       *)
(* ------------------------------------------------------------------ *)
MaxDetailLen == 2

ValidationMsgs ==
    {"Text cannot be empty or only whitespace", "field required"}

(* what axios hands to the response interceptor: a response, or an   *)
(* error without one (timeout, network failure)                       *)
AxiosReply(present, status, error, detail_is_array, detail) ==
    [present |-> present, status |-> status, error |-> error,
     detail_is_array |-> detail_is_array, detail |-> detail]

NoResponse == AxiosReply(FALSE, 0, <<>>, FALSE, <<>>)

ServerReplies ==
    {AxiosReply(TRUE, HTTP_200_OK, <<>>, FALSE, <<>>),
     AxiosReply(TRUE, HTTP_400_BAD_REQUEST, <<NoTranslatableDetail>>, FALSE, <<>>),
     AxiosReply(TRUE, HTTP_400_BAD_REQUEST, <<>>, FALSE, <<InvalidFormatDetail>>),
     AxiosReply(TRUE, HTTP_422_UNPROCESSABLE_ENTITY, <<>>, FALSE,
                <<"Unprocessable">>),
     AxiosReply(TRUE, HTTP_500_INTERNAL_SERVER_ERROR, <<TranslationFailedDetail>>,
                FALSE, <<>>),
     NoResponse}
        \cup {AxiosReply(TRUE, HTTP_422_UNPROCESSABLE_ENTITY, error, TRUE, detail) :
                  error \in {<<>>, <<"Invalid request">>},
                  detail \in SeqsUpTo(ValidationMsgs, MaxDetailLen)}

(* new Error(message): an error object that carries no response *)
Error(message) == [thrown |-> TRUE, message |-> message, response |-> NoResponse]

(* the rejection axios produces for a non-2xx reply or a failed request *)
AxiosError(reply) ==
    [thrown |-> TRUE, message |-> <<"Request failed">>, response |-> reply]

Resolved(reply) == [thrown |-> FALSE, message |-> <<>>, response |-> reply]

(* detail.map(err => err.msg).join(', ') *)
RECURSIVE ArrayJoin(_, _)
ArrayJoin(msgs, sep) ==
    IF msgs = <<>> THEN <<>>
    ELSE IF Len(msgs) = 1 THEN <<msgs[1]>>
    ELSE <<msgs[1], sep>> \o ArrayJoin(Tail(msgs), sep)

ValidationErrorMessage(detail) ==
    <<"Validation error: ">> \o ArrayJoin(detail, ", ")

(* api.interceptors.response.use(onFulfilled, onRejected) *)
ResponseInterceptor(reply) ==
    IF reply.present /\ reply.status = HTTP_200_OK
    THEN Resolved(reply)
    ELSE IF reply.present /\ reply.status = HTTP_422_UNPROCESSABLE_ENTITY
              /\ reply.detail_is_array
         THEN Error(ValidationErrorMessage(reply.detail))
         ELSE AxiosError(reply)

EnglishToMorseFallback == "Failed to translate English to Morse code"
MorseToEnglishFallback == "Failed to translate Morse code to English"

(* the catch block shared by translateEnglishToMorse and               *)
(* translateMorseToEnglish                                             *)
TranslateCatch(error, fallback) ==
    IF error.response.present /\ error.response.error # <<>>
    THEN Error(error.response.error)
    ELSE Error(<<fallback>>)

(* what the awaited api.post settles to, then the wrapper's try/catch *)
ApiTranslate(reply, fallback) ==
    LET settled == ResponseInterceptor(reply)
    IN  IF settled.thrown THEN TranslateCatch(settled, fallback) ELSE settled

translateEnglishToMorse(reply) == ApiTranslate(reply, EnglishToMorseFallback)

translateMorseToEnglish(reply) == ApiTranslate(reply, MorseToEnglishFallback)

(* ------------------------------------------------------------------ *)
(* MorseTranslator component (components/MorseTranslator.jsx, in its   *)
(* earlier and its later version).  The component is a record of its   *)
(* React state, the debounce ref, the timers the browser holds for it  *)
(* and its requests in flight.                                         *)
(* ------------------------------------------------------------------ *)
EnglishToMorseMode == "english-to-morse"

MorseToEnglishMode == "morse-to-english"

Modes == {EnglishToMorseMode, MorseToEnglishMode}

Versions == {"earlier", "later"}

(* setTimeout(..., 500) *)
DebounceMs == 500

(* the requests the model lets be in flight at once *)
MaxInFlight == 2

(* an output that is a string / an array of strings *)
StringOutput(text) == [is_array |-> FALSE, value |-> text]

ArrayOutput(results) == [is_array |-> TRUE, value |-> results]

(* !text.trim() *)
Blank(text) == strip(text) = <<>>

(* !output: the empty string is falsy, every array is truthy *)
Falsy(output) == ~output.is_array /\ output.value = <<>>

(* `Found ${n} possible interpretations` *)
FoundMessage(n) == <<"Found ", ToString(n), " possible interpretations">>

(* useState / useRef initial values *)
MorseTranslatorMounted(version) ==
    [version |-> version,
     mode |-> EnglishToMorseMode,
     input |-> <<>>,
     output |-> StringOutput(<<>>),
     isLoading |-> FALSE,
     error |-> <<>>,
     success |-> <<>>,
     debounceTimerRef |-> 0,
     timers |-> {},
     requests |-> {},
     unchangedMs |-> DebounceMs]

clearMessages(s) == [s EXCEPT !.error = <<>>, !.success = <<>>]

(* clearTimeout(debounceTimerRef.current) *)
ClearDebounceTimer(s) ==
    [s EXCEPT !.timers = {t \in s.timers : t.id # s.debounceTimerRef}]

(* a timer id the browser has not handed out to a live or remembered timer *)
FreshTimerId(s) ==
    CHOOSE id \in 1..(Cardinality(s.timers) + 2) :
        /\ id # s.debounceTimerRef
        /\ \A t \in s.timers : t.id # id

(* Variant: the effect starts a timer without clearing the one before. *)
AutoTranslateEffect_no_clear(s) ==
    IF ~Blank(s.input)
    THEN LET timer == [id |-> FreshTimerId(s), input |-> s.input,
                       mode |-> s.mode, remaining |-> DebounceMs]
         IN  [s EXCEPT !.timers = @ \cup {timer},
                       !.debounceTimerRef = timer.id,
                       !.unchangedMs = 0]
    ELSE [s EXCEPT !.output = StringOutput(<<>>),
                   !.error = <<>>,
                   !.success = <<>>,
                   !.unchangedMs = 0]

(* the useEffect on [input, mode]: the cleanup of the effect before,   *)
(* then the effect; the timer's callback closes over input and mode    *)
AutoTranslateEffect(s) ==
    LET cleared == ClearDebounceTimer(ClearDebounceTimer(s))
    IN  IF ~Blank(s.input)
        THEN LET timer == [id |-> FreshTimerId(cleared), input |-> s.input,
                           mode |-> s.mode, remaining |-> DebounceMs]
             IN  [cleared EXCEPT !.timers = @ \cup {timer},
                                 !.debounceTimerRef = timer.id,
                                 !.unchangedMs = 0]
        ELSE [cleared EXCEPT !.output = StringOutput(<<>>),
                             !.error = <<>>,
                             !.success = <<>>,
                             !.unchangedMs = 0]

(* the render after a handler: the effect runs when input or mode changed *)
Rendered(before, after) ==
    IF after.input # before.input \/ after.mode # before.mode
    THEN AutoTranslateEffect(after)
    ELSE after

handleInputChange(s, value) == [s EXCEPT !.input = value]

(* output[0] for an array, the output itself for a string *)
OutputText(output) ==
    IF output.is_array
    THEN IF output.value = <<>> THEN <<>> ELSE output.value[1]
    ELSE output.value

handleModeChange(s, newMode) ==
    IF s.version = "later" /\ ~Blank(OutputText(s.output)) /\ newMode # s.mode
    THEN clearMessages([s EXCEPT !.mode = newMode,
                                 !.input = OutputText(s.output)])
    ELSE clearMessages([s EXCEPT !.mode = newMode,
                                 !.input = <<>>,
                                 !.output = StringOutput(<<>>)])

handleClear(s) ==
    clearMessages([s EXCEPT !.input = <<>>, !.output = StringOutput(<<>>)])

OtherMode(mode) ==
    IF mode = EnglishToMorseMode THEN MorseToEnglishMode ELSE EnglishToMorseMode

(* Variant: only a string output is swapped, in either version. *)
handleSwap_string_only(s) ==
    IF ~s.output.is_array /\ ~Blank(s.output.value)
    THEN clearMessages([s EXCEPT !.mode = OtherMode(s.mode),
                                 !.input = s.output.value])
    ELSE s

(* earlier version: only a non-blank string is swapped, and the output *)
(* is cleared; later version: the first interpretation of an array is  *)
(* swapped as well, and the output is left for the auto-translate      *)
handleSwap(s) ==
    IF s.version = "earlier"
    THEN IF ~s.output.is_array /\ ~Blank(s.output.value)
         THEN clearMessages([s EXCEPT !.mode = OtherMode(s.mode),
                                      !.input = s.output.value,
                                      !.output = StringOutput(<<>>)])
         ELSE s
    ELSE LET outputText ==
                 IF ~s.output.is_array /\ ~Blank(s.output.value)
                 THEN s.output.value
                 ELSE IF s.output.is_array /\ Len(s.output.value) > 0
                           /\ s.output.value[1] # <<>>
                           /\ ~Blank(s.output.value[1])
                      THEN s.output.value[1]
                      ELSE <<>>
         IN  IF outputText # <<>>
             THEN clearMessages([s EXCEPT !.mode = OtherMode(s.mode),
                                          !.input = outputText])
             ELSE s

(* the disabled attributes of the buttons and of the input *)
ModeButtonsDisabled(s) == s.isLoading

InputDisabled(s) == s.isLoading

TranslateDisabled(s) == Blank(s.input) \/ s.isLoading

SwapDisabled(s) ==
    IF s.version = "earlier"
    THEN Falsy(s.output) \/ s.output.is_array \/ s.isLoading
    ELSE \/ Falsy(s.output)
         \/ (s.output.is_array
                /\ (s.output.value = <<>> \/ Blank(s.output.value[1])))
         \/ (~s.output.is_array /\ Blank(s.output.value))
         \/ s.isLoading

ClearDisabled(s) == s.input = <<>> /\ Falsy(s.output)

(* a request in flight: who sent it and the input and mode it closed over *)
Request(by, input, mode) == [by |-> by, input |-> input, mode |-> mode]

(* handleTranslate() up to its await *)
handleTranslate(s) ==
    IF Blank(s.input)
    THEN clearMessages([s EXCEPT !.output = StringOutput(<<>>)])
    ELSE clearMessages([s EXCEPT !.isLoading = TRUE,
                                 !.requests = @ \cup {Request("manual", s.input, s.mode)}])

(* the callback of the debounce timer up to its await *)
DebounceCallback(s, timer) ==
    IF Blank(timer.input)
    THEN [s EXCEPT !.timers = @ \ {timer}]
    ELSE [s EXCEPT !.timers = @ \ {timer},
                   !.requests = @ \cup {Request("auto", timer.input, timer.mode)}]

(* the endpoints as the client reaches them: the request schema, then *)
(* the handler with the stripped field                                 *)
PostEnglishToMorse(text) ==
    IF EnglishToMorseRequestValid(text)
    THEN translate_english_to_morse(strip(text))
    ELSE RequestValidationError

PostMorseToEnglish(morse_code) ==
    IF MorseToEnglishRequestValid(morse_code)
    THEN translate_morse_to_english(strip(morse_code))
    ELSE RequestValidationError

(* the body the server sends: http_exception_handler puts exc.detail   *)
(* into "error"; a schema failure carries a detail array and no "error" *)
AxiosReplyOf(response) ==
    IF ~response.raised
    THEN AxiosReply(TRUE, HTTP_200_OK, <<>>, FALSE, <<>>)
    ELSE IF response.status = HTTP_422_UNPROCESSABLE_ENTITY
         THEN AxiosReply(TRUE, response.status, <<>>, TRUE, <<response.detail>>)
         ELSE AxiosReply(TRUE, response.status, <<response.detail>>, FALSE,
                         <<response.detail>>)

(* await translateEnglishToMorse(input) / translateMorseToEnglish(input): *)
(* the text is trimmed and posted; without the network no reply comes   *)
TranslationResult(request, network) ==
    LET response ==
            IF request.mode = EnglishToMorseMode
            THEN PostEnglishToMorse(strip(request.input))
            ELSE PostMorseToEnglish(strip(request.input))
        reply == IF network THEN AxiosReplyOf(response) ELSE NoResponse
        settled ==
            IF request.mode = EnglishToMorseMode
            THEN translateEnglishToMorse(reply)
            ELSE translateMorseToEnglish(reply)
    IN  [thrown |-> settled.thrown,
         message |-> settled.message,
         output |-> response.output,
         is_array |-> response.is_list]

(* the request that got no reply: the wrapper's catch rethrows *)
TimedOut(request) ==
    LET settled ==
            IF request.mode = EnglishToMorseMode
            THEN translateEnglishToMorse(NoResponse)
            ELSE translateMorseToEnglish(NoResponse)
    IN  [thrown |-> settled.thrown,
         message |-> settled.message,
         output |-> <<>>,
         is_array |-> FALSE]

(* err.message || 'Translation failed' *)
ErrorMessage(result) ==
    IF result.message # <<>> THEN result.message ELSE <<"Translation failed">>

(* Variant: isLoading is reset only when the request succeeded. *)
HandleTranslateSettled_no_finally(s, request, result) ==
    LET settled == [s EXCEPT !.requests = @ \ {request}]
    IN  IF result.thrown
        THEN [settled EXCEPT !.error = ErrorMessage(result),
                             !.output = StringOutput(<<>>)]
        ELSE IF request.mode = EnglishToMorseMode
        THEN [settled EXCEPT !.output = StringOutput(result.output),
                             !.isLoading = FALSE]
        ELSE IF result.is_array
        THEN [settled EXCEPT !.output = ArrayOutput(result.output),
                             !.isLoading = FALSE,
                             !.success = IF Len(result.output) > 1
                                         THEN FoundMessage(Len(result.output))
                                         ELSE @]
        ELSE [settled EXCEPT !.output = ArrayOutput(<<result.output>>),
                             !.isLoading = FALSE]

(* handleTranslate after its await: try, catch and finally *)
HandleTranslateSettled(s, request, result) ==
    LET settled == [s EXCEPT !.requests = @ \ {request}, !.isLoading = FALSE]
    IN  IF result.thrown
        THEN [settled EXCEPT !.error = ErrorMessage(result),
                             !.output = StringOutput(<<>>)]
        ELSE IF request.mode = EnglishToMorseMode
        THEN [settled EXCEPT !.output = StringOutput(result.output)]
        ELSE IF result.is_array
        THEN [settled EXCEPT !.output = ArrayOutput(result.output),
                             !.success = IF Len(result.output) > 1
                                         THEN FoundMessage(Len(result.output))
                                         ELSE @]
        ELSE [settled EXCEPT !.output = ArrayOutput(<<result.output>>)]

(* the debounce callback after its await: try and catch *)
AutoTranslateSettled(s, request, result) ==
    LET settled == [s EXCEPT !.requests = @ \ {request}]
    IN  IF result.thrown
        THEN [settled EXCEPT !.error = ErrorMessage(result),
                             !.output = StringOutput(<<>>),
                             !.success = <<>>]
        ELSE IF request.mode = EnglishToMorseMode
        THEN [settled EXCEPT !.output = StringOutput(result.output),
                             !.error = <<>>,
                             !.success = <<>>]
        ELSE IF result.is_array
        THEN [settled EXCEPT !.output = ArrayOutput(result.output),
                             !.error = <<>>,
                             !.success = IF Len(result.output) > 1
                                         THEN FoundMessage(Len(result.output))
                                         ELSE <<>>]
        ELSE [settled EXCEPT !.output = ArrayOutput(<<result.output>>),
                             !.error = <<>>,
                             !.success = <<>>]

(* what the user types into the input *)
TypedInputs == {<<" ">>, <<".", ".">>}

(* ------------------------------------------------------------------ *)
(* Toast (Toast.jsx): props show and duration, state isVisible and     *)
(* isAnimating, the timers it has started, and what its parent has     *)
(* seen of onClose.                                                    *)
(* ------------------------------------------------------------------ *)
(* duration = 3000 *)
DefaultDuration == 3000

(* the delay of handleClose: 300, the CSS transition *)
CloseDelay == 300

(* the shortest time between two events that is told apart *)
MomentMs == 100

(* most timers of one toast pending together *)
MaxToastTimers == 3

FreshToastTimerId(t) ==
    CHOOSE id \in 1..(Cardinality(t.timers) + 2) :
        /\ id # t.effectTimer
        /\ \A timer \in t.timers : timer.id # id

(* the effect on [show, duration]; effectTimer is the timer its cleanup *)
(* clears, 0 when it returned no cleanup                                *)
ToastEffect(t) ==
    IF t.show
    THEN [t EXCEPT !.isVisible = TRUE,
                   !.isAnimating = TRUE,
                   !.timers = @ \cup {[id |-> FreshToastTimerId(t),
                                       kind |-> "duration",
                                       remaining |-> t.duration]},
                   !.effectTimer = FreshToastTimerId(t),
                   !.shownMs = 0,
                   !.onCloseCalls = 0]
    ELSE [t EXCEPT !.effectTimer = 0]

(* return () => clearTimeout(timer) *)
ToastEffectCleanup(t) ==
    [t EXCEPT !.timers = {timer \in @ : timer.id # t.effectTimer}]

(* useState(show), useState(false), then the effect of the first render; *)
(* shownMs is the time since the effect last ran with show true and      *)
(* onCloseCalls the number of onClose calls since then                   *)
ToastMounted(show, duration) ==
    ToastEffect([mounted |-> TRUE,
                 show |-> show,
                 duration |-> duration,
                 isVisible |-> show,
                 isAnimating |-> FALSE,
                 timers |-> {},
                 effectTimer |-> 0,
                 shownMs |-> 0,
                 onCloseCalls |-> 0,
                 firedUnmounted |-> FALSE])

ToastHandleClose(t) ==
    [t EXCEPT !.isAnimating = FALSE,
              !.timers = @ \cup {[id |-> FreshToastTimerId(t),
                                  kind |-> "close",
                                  remaining |-> CloseDelay]}]

(* the callback of handleClose's timer; the state setter does nothing *)
(* on an unmounted component, onClose is called all the same          *)
ToastCloseCallback(t, timer) ==
    [t EXCEPT !.timers = @ \ {timer},
              !.isVisible = IF t.mounted THEN FALSE ELSE @,
              !.onCloseCalls = @ + 1,
              !.firedUnmounted = @ \/ ~t.mounted]

(* ------------------------------------------------------------------ *)
(* TranslationOutput (part_003): the output prop, the copiedIndex      *)
(* state and the timers of handleCopy.  What it renders is a record:   *)
(* the kind of view, the results shown, the number in the header and   *)
(* the positions whose copy button shows the copied mark.              *)
(* ------------------------------------------------------------------ *)
(* Reset the copied state after 2 seconds *)
CopyResetMs == 2000

(* the shortest time between two events that is told apart *)
CopyMomentMs == 1000

(* most reset timers pending together *)
MaxCopyTimers == 2

(* longest output list explored *)
MaxListLen == 2

(* copiedIndex: null, 'single', or the index of an item *)
NullIndex == [kind |-> "null", index |-> 0]

SingleIndex == [kind |-> "single", index |-> 0]

ItemIndex(index) == [kind |-> "index", index |-> index]

TranslationOutputMounted(output) ==
    [output |-> output, copiedIndex |-> NullIndex, timers |-> {}]

renderSingleResult(result, copiedIndex) ==
    IF result = <<>> \/ strip(result) = <<>>
    THEN [kind |-> "placeholder", items |-> <<>>, header |-> 0, marked |-> {}]
    ELSE [kind |-> "single", items |-> <<result>>, header |-> 0,
          marked |-> IF copiedIndex = SingleIndex THEN {1} ELSE {}]

(* Variant: blank entries are kept. *)
renderMultipleResults_unfiltered(results, copiedIndex) ==
    LET validResults == results
    IN  IF Len(validResults) = 0 THEN renderSingleResult(<<>>, copiedIndex)
        ELSE IF Len(validResults) = 1
        THEN renderSingleResult(validResults[1], copiedIndex)
        ELSE [kind |-> "multiple",
              items |-> validResults,
              header |-> Len(validResults),
              marked |-> {i \in DOMAIN validResults :
                             copiedIndex = ItemIndex(i - 1)}]

renderMultipleResults(results, copiedIndex) ==
    LET validResults ==
            SelectSeq(results, LAMBDA result :
                                   result # <<>> /\ strip(result) # <<>>)
    IN  IF Len(validResults) = 0 THEN renderSingleResult(<<>>, copiedIndex)
        ELSE IF Len(validResults) = 1
        THEN renderSingleResult(validResults[1], copiedIndex)
        ELSE [kind |-> "multiple",
              items |-> validResults,
              header |-> Len(validResults),
              marked |-> {i \in DOMAIN validResults :
                             copiedIndex = ItemIndex(i - 1)}]

(* the component's return value *)
TranslationOutput(v) ==
    IF Falsy(v.output) THEN renderSingleResult(<<>>, v.copiedIndex)
    ELSE IF v.output.is_array
    THEN renderMultipleResults(v.output.value, v.copiedIndex)
    ELSE renderSingleResult(v.output.value, v.copiedIndex)

FreshCopyTimerId(v) ==
    CHOOSE id \in 1..(Cardinality(v.timers) + 1) :
        \A timer \in v.timers : timer.id # id

(* handleCopy: the clipboard write, or else the execCommand fallback, *)
(* sets the mark and starts the reset timer                           *)
handleCopy(v, index, clipboard, fallback) ==
    IF clipboard \/ fallback
    THEN [v EXCEPT !.copiedIndex = index,
                   !.timers = @ \cup {[id |-> FreshCopyTimerId(v),
                                       remaining |-> CopyResetMs]}]
    ELSE v

(* the copy buttons of the view: the index each passes to handleCopy *)
CopyButtons(v) ==
    LET shown == TranslationOutput(v)
    IN  IF shown.kind = "single" THEN {SingleIndex}
        ELSE IF shown.kind = "multiple"
        THEN {ItemIndex(i - 1) : i \in DOMAIN shown.items}
        ELSE {}

(* ------------------------------------------------------------------ *)
(* Explored inputs                                                     *)
(* ------------------------------------------------------------------ *)
HelloWorldText == <<"H", "E", "L", "L", "O", " ", "W", "O", "R", "L", "D">>

HelloWorldMorse ==
    <<".", ".", ".", ".", " ", ".", " ", ".", "-", ".", ".", " ", ".", "-", ".", ".", " ", "-", "-", "-", " ", "/", " ", ".", "-", "-", " ", "-", "-", "-", " ", ".", "-", ".", " ", ".", "-", ".", ".", " ", "-", ".", ".">>

SosUnspaced == <<".", ".", ".", "-", "-", "-", ".", ".", ".">>

(* the members of extra that SeqsUpTo(chars, n) does not already hold *)
Beyond(extra, chars, n) ==
    {s \in extra : Len(s) > n \/ \E i \in 1..Len(s) : s[i] \notin chars}

Texts ==
    SeqsUpTo(TextChars, MaxTextLen)
        \cup Beyond({HelloWorldText, <<KelvinSign>>, <<"o", KelvinSign>>}
                        \cup {<<c>> : c \in ChartChars},
                    TextChars, MaxTextLen)

(* "...-.", the README's example of an ambiguous input *)
VeUnspaced == <<".", ".", ".", "-", ".">>

SosSpaced == <<".", ".", ".", " ", "-", "-", "-", " ", ".", ".", ".">>

Codes ==
    SeqsUpTo(CodeChars, MaxCodeLen)
        \cup Beyond({HelloWorldMorse, SosUnspaced, SosSpaced, VeUnspaced,
                     <<"a", "b", "c">>, <<"1", "2", "3">>},
                    CodeChars, MaxCodeLen)

LettersAndDigits == Symbols \ {" "}

Words ==
    SeqsUpTo(WordChars, MaxWordLen)
        \cup Beyond({<<c>> : c \in LettersAndDigits} \cup {<<"S", "O", "S">>},
                    WordChars, MaxWordLen)

(* the entries of an output list *)
OutputEntries == {<<>>, <<" ">>, <<"E", "E">>, <<"I">>}

Outputs ==
    {StringOutput(entry) : entry \in OutputEntries}
        \cup {ArrayOutput(results) :
                 results \in SeqsUpTo(OutputEntries, MaxListLen)
                                 \cup Beyond({<< <<" ">>, <<"E", "E">>, <<"I">> >>},
                                             OutputEntries, MaxListLen)}

(* ------------------------------------------------------------------ *)
(* State: the most recent call, its argument and what it returned.     *)
(* The calls are stateless: a call is made from the idle state and     *)
(* nothing of it is kept once its caller has taken the result.         *)
(* ------------------------------------------------------------------ *)
VARIABLES op, arg, via, ret

(* The frontend components, each with its React state, its pending     *)
(* timers and its requests in flight.                                  *)
VARIABLES translator, toast, view

callVars == <<op, arg, via, ret>>

componentVars == <<translator, toast, view>>

vars == <<op, arg, via, ret, translator, toast, view>>

Idle ==
    /\ op = "idle"
    /\ arg = <<>>
    /\ via = <<>>
    /\ ret = <<>>

Unmounted ==
    /\ translator = <<>>
    /\ toast = <<>>
    /\ view = <<>>

Init == Idle /\ Unmounted

(* MorseTranslator.english_to_morse(text) *)
EncodeCall ==
    /\ op = "idle"
    /\ \E text \in Texts :
           /\ op' = "english_to_morse"
           /\ arg' = text
           /\ via' = <<>>
           /\ ret' = english_to_morse(text)
    /\ UNCHANGED componentVars

(* english_to_morse of a text, of its upper-case and of its lower-case form *)
EncodeCasesCall ==
    /\ op = "idle"
    /\ \E text \in Texts :
           /\ op' = "encode_cases"
           /\ arg' = text
           /\ via' = <<>>
           /\ ret' = <<english_to_morse(text),
                       english_to_morse(upper(text)),
                       english_to_morse(lower(text))>>
    /\ UNCHANGED componentVars

(* MorseTranslator.morse_to_english(code) *)
DecodeCall ==
    /\ op = "idle"
    /\ \E code \in Codes :
           /\ op' = "morse_to_english"
           /\ arg' = code
           /\ via' = <<>>
           /\ ret' = morse_to_english(code)
    /\ UNCHANGED componentVars

(* MorseTranslator.morse_to_english of the unseparated patterns of a word *)
DecodeWordCall ==
    /\ op = "idle"
    /\ \E word \in Words :
           /\ op' = "decode_word"
           /\ arg' = word
           /\ via' = Flatten(MorseResultOf(word))
           /\ ret' = morse_to_english(via')
    /\ UNCHANGED componentVars

(* morse_to_english(english_to_morse(text)) *)
RoundTripCall ==
    /\ op = "idle"
    /\ \E text \in Texts :
           /\ op' = "round_trip"
           /\ arg' = text
           /\ via' = english_to_morse(text)
           /\ ret' = morse_to_english(via')
    /\ UNCHANGED componentVars

(* MorseTranslator.validate_morse_code(code) *)
ValidateCall ==
    /\ op = "idle"
    /\ \E code \in Codes :
           /\ op' = "validate_morse_code"
           /\ arg' = code
           /\ via' = <<>>
           /\ ret' = validate_morse_code(code)
    /\ UNCHANGED componentVars

(* POST /translate/english-to-morse with body {"text": text} *)
TranslateEnglishToMorseCall ==
    /\ op = "idle"
    /\ \E text \in Texts :
           /\ op' = "translate_english_to_morse"
           /\ arg' = text
           /\ IF EnglishToMorseRequestValid(text)
              THEN /\ via' = english_to_morse(strip(text))
                   /\ ret' = translate_english_to_morse(strip(text))
              ELSE /\ via' = <<>>
                   /\ ret' = RequestValidationError
    /\ UNCHANGED componentVars

(* POST /translate/morse-to-english with body {"morse_code": code} *)
TranslateMorseToEnglishCall ==
    /\ op = "idle"
    /\ \E code \in Codes :
           /\ op' = "translate_morse_to_english"
           /\ arg' = code
           /\ IF MorseToEnglishRequestValid(code)
              THEN /\ via' = morse_to_english(strip(code))
                   /\ ret' = translate_morse_to_english(strip(code))
              ELSE /\ via' = <<>>
                   /\ ret' = RequestValidationError
    /\ UNCHANGED componentVars

TranslateEnglishToMorseApiCall ==
    /\ op = "idle"
    /\ \E reply \in ServerReplies :
           /\ op' = "translateEnglishToMorse"
           /\ arg' = reply
           /\ via' = ResponseInterceptor(reply)
           /\ ret' = translateEnglishToMorse(reply)
    /\ UNCHANGED componentVars

TranslateMorseToEnglishApiCall ==
    /\ op = "idle"
    /\ \E reply \in ServerReplies :
           /\ op' = "translateMorseToEnglish"
           /\ arg' = reply
           /\ via' = ResponseInterceptor(reply)
           /\ ret' = translateMorseToEnglish(reply)
    /\ UNCHANGED componentVars

(* the caller takes the result; the translator keeps no residue *)
Return ==
    /\ op # "idle"
    /\ op' = "idle"
    /\ arg' = <<>>
    /\ via' = <<>>
    /\ ret' = <<>>
    /\ UNCHANGED componentVars

Next ==
    \/ EncodeCall
    \/ EncodeCasesCall
    \/ DecodeCall
    \/ DecodeWordCall
    \/ RoundTripCall
    \/ ValidateCall
    \/ TranslateEnglishToMorseCall
    \/ TranslateMorseToEnglishCall
    \/ TranslateEnglishToMorseApiCall
    \/ TranslateMorseToEnglishApiCall
    \/ Return

Spec == Init /\ [][Next]_vars

(* ------------------------------------------------------------------ *)
(* MorseTranslator: the user's events, the timer, the clock and the    *)
(* replies.  A handler, the render it causes and the effect of that    *)
(* render are one step.                                                *)
(* ------------------------------------------------------------------ *)
InitTranslator ==
    /\ Idle
    /\ \E version \in Versions : translator = MorseTranslatorMounted(version)
    /\ toast = <<>>
    /\ view = <<>>

InputChange ==
    /\ ~InputDisabled(translator)
    /\ \E value \in TypedInputs :
           translator' = Rendered(translator, handleInputChange(translator, value))
    /\ UNCHANGED <<callVars, toast, view>>

ModeChange ==
    /\ ~ModeButtonsDisabled(translator)
    /\ \E newMode \in Modes :
           translator' = Rendered(translator, handleModeChange(translator, newMode))
    /\ UNCHANGED <<callVars, toast, view>>

Clear ==
    /\ ~ClearDisabled(translator)
    /\ translator' = Rendered(translator, handleClear(translator))
    /\ UNCHANGED <<callVars, toast, view>>

Swap ==
    /\ ~SwapDisabled(translator)
    /\ translator' = Rendered(translator, handleSwap(translator))
    /\ UNCHANGED <<callVars, toast, view>>

Translate ==
    /\ ~TranslateDisabled(translator)
    /\ Cardinality(translator.requests) < MaxInFlight
    /\ translator' = Rendered(translator, handleTranslate(translator))
    /\ UNCHANGED <<callVars, toast, view>>

(* a timer that is due runs its callback *)
DebounceTimerFires ==
    /\ Cardinality(translator.requests) < MaxInFlight
    /\ \E timer \in translator.timers :
           /\ timer.remaining = 0
           /\ translator' = DebounceCallback(translator, timer)
    /\ UNCHANGED <<callVars, toast, view>>

(* time passes until the next pending timer is due, or for a whole   *)
(* debounce period when none is pending                               *)
TimePasses ==
    /\ \/ translator.unchangedMs < DebounceMs
       \/ \E timer \in translator.timers : timer.remaining > 0
    /\ \A timer \in translator.timers : timer.remaining > 0
    /\ LET passed ==
               IF translator.timers = {} THEN DebounceMs
               ELSE CHOOSE ms \in {t.remaining : t \in translator.timers} :
                        \A t \in translator.timers : ms <= t.remaining
       IN  translator' =
               [translator EXCEPT
                    !.unchangedMs = Min(DebounceMs, @ + passed),
                    !.timers = {[t EXCEPT !.remaining =
                                     IF @ > passed THEN @ - passed ELSE 0] :
                                t \in @}]
    /\ UNCHANGED <<callVars, toast, view>>

(* a request settles, with the server's answer or without a reply *)
ResponseArrives ==
    /\ \E request \in translator.requests :
           translator' =
               IF request.by = "manual"
               THEN HandleTranslateSettled(translator, request,
                                           TranslationResult(request, TRUE))
               ELSE AutoTranslateSettled(translator, request,
                                         TranslationResult(request, TRUE))
    /\ UNCHANGED <<callVars, toast, view>>

(* no reply within the axios timeout: the request fails without a *)
(* response and the awaiting handler goes to its catch            *)
RequestTimesOut ==
    /\ \E request \in translator.requests :
           translator' =
               IF request.by = "manual"
               THEN HandleTranslateSettled(translator, request,
                                           TimedOut(request))
               ELSE AutoTranslateSettled(translator, request,
                                         TimedOut(request))
    /\ UNCHANGED <<callVars, toast, view>>

NextTranslator ==
    \/ InputChange
    \/ ModeChange
    \/ Clear
    \/ Swap
    \/ Translate
    \/ DebounceTimerFires
    \/ TimePasses
    \/ ResponseArrives
    \/ RequestTimesOut

SpecTranslator == InitTranslator /\ [][NextTranslator]_vars

(* every request settles: axios gives up after its timeout of 10 s *)
SpecTranslatorFair == SpecTranslator /\ WF_vars(RequestTimesOut)

(* ------------------------------------------------------------------ *)
(* morse_to_english call by call: the recursion of                     *)
(* _find_all_translations (and of the unspaced search) as a stack of   *)
(* frames, one step per loop iteration, call or return.  op is         *)
(* "decoding" while frames are on the stack and "decoded" once the     *)
(* outermost call has returned; via holds the units and the stack.     *)
(* ------------------------------------------------------------------ *)
MaxStepLen == 3

StepChars == {".", "-", " ", "x"}

StepCodes == SeqsUpTo(StepChars, MaxStepLen)

(* a call's frame on entry: the for loop starts at index + 1 *)
Frame(index, current_translation) ==
    [index |-> index,
     current_translation |-> current_translation,
     end_index |-> index + 1,
     all_translations |-> <<>>]

Top(v) == v.stack[Len(v.stack)]

(* last end_index of the loop: range(index + 1, len(morse_units) + 1); *)
(* the unspaced search stops at the longest pattern                    *)
LastEndIndex(v, frame) ==
    IF v.spaced THEN Len(v.units)
    ELSE Min(Len(v.units), frame.index + MaxPatternLen)

PotentialPattern(v, frame) ==
    IF v.spaced
    THEN join(" ", SubSeq(v.units, frame.index + 1, frame.end_index))
    ELSE SubSeq(v.units, frame.index + 1, frame.end_index)

(* Variant: the recursive call is made with the caller's own index. *)
Callee_same_index(frame, letter) ==
    Frame(frame.index, frame.current_translation \o <<letter>>)

(* the frame of the recursive call: (morse_units, end_index, new_translation) *)
Callee(frame, letter) ==
    Frame(frame.end_index, frame.current_translation \o <<letter>>)

AtEnd(v, frame) == frame.index >= Len(v.units)

LoopDone(v, frame) == frame.end_index > LastEndIndex(v, frame)

(* morse_to_english up to its call of a helper *)
BeginDecode ==
    /\ op = "idle"
    /\ \E code \in StepCodes :
           /\ arg' = code
           /\ IF strip(code) = <<>>
              THEN /\ op' = "decoded"
                   /\ via' = <<>>
                   /\ ret' = << <<>> >>
              ELSE /\ op' = "decoding"
                   /\ ret' = <<>>
                   /\ via' =
                          IF \E i \in DOMAIN strip(code) : strip(code)[i] = " "
                          THEN [spaced |-> TRUE,
                                units |-> NonEmptyUnits(split(strip(code), " ")),
                                stack |-> <<Frame(0, <<>>)>>]
                          ELSE [spaced |-> FALSE,
                                units |-> strip(code),
                                stack |-> <<Frame(0, <<>>)>>]
    /\ UNCHANGED componentVars

(* the pattern at hand is in REVERSE_MORSE_DICT: the recursive call *)
RecursiveCall ==
    /\ op = "decoding"
    /\ ~AtEnd(via, Top(via))
    /\ ~LoopDone(via, Top(via))
    /\ PotentialPattern(via, Top(via)) \in DOMAIN REVERSE_MORSE_DICT
    /\ via' = [via EXCEPT !.stack =
                  Append(@, Callee(Top(via),
                                   REVERSE_MORSE_DICT[PotentialPattern(via, Top(via))]))]
    /\ UNCHANGED <<op, arg, ret, componentVars>>

(* the pattern at hand is not in the table: next end_index *)
NextEndIndex ==
    /\ op = "decoding"
    /\ ~AtEnd(via, Top(via))
    /\ ~LoopDone(via, Top(via))
    /\ PotentialPattern(via, Top(via)) \notin DOMAIN REVERSE_MORSE_DICT
    /\ via' = [via EXCEPT !.stack[Len(via.stack)].end_index = @ + 1]
    /\ UNCHANGED <<op, arg, ret, componentVars>>

(* return [current_translation] at the end of the units, or           *)
(* all_translations after the loop; the caller extends its list and   *)
(* goes on with the next end_index                                    *)
ReturnFromCall ==
    /\ op = "decoding"
    /\ AtEnd(via, Top(via)) \/ LoopDone(via, Top(via))
    /\ LET result == IF AtEnd(via, Top(via))
                     THEN <<Top(via).current_translation>>
                     ELSE Top(via).all_translations
           depth == Len(via.stack)
       IN  IF depth = 1
           THEN /\ op' = "decoded"
                /\ ret' = IF via.spaced THEN result ELSE StableDedup(result)
                /\ via' = <<>>
           ELSE /\ via' = [via EXCEPT !.stack =
                              [SubSeq(@, 1, depth - 1) EXCEPT
                                  ![depth - 1].all_translations = @ \o result,
                                  ![depth - 1].end_index = @ + 1]]
                /\ UNCHANGED <<op, ret>>
    /\ UNCHANGED <<arg, componentVars>>

(* the caller takes the list *)
TakeResult ==
    /\ op = "decoded"
    /\ op' = "idle"
    /\ arg' = <<>>
    /\ via' = <<>>
    /\ ret' = <<>>
    /\ UNCHANGED componentVars

DecodeStep == RecursiveCall \/ NextEndIndex \/ ReturnFromCall

NextDecodeSteps ==
    \/ BeginDecode
    \/ RecursiveCall
    \/ NextEndIndex
    \/ ReturnFromCall
    \/ TakeResult

SpecDecodeSteps == Init /\ [][NextDecodeSteps]_vars

(* a call that can take a step takes it: the interpreter does not stop *)
SpecDecodeStepsFair == SpecDecodeSteps /\ WF_vars(DecodeStep)

(* ------------------------------------------------------------------ *)
(* Toast: its parent, the user and the clock                           *)
(* ------------------------------------------------------------------ *)
InitToast ==
    /\ Idle
    /\ translator = <<>>
    /\ view = <<>>
    /\ \E show \in BOOLEAN : toast = ToastMounted(show, DefaultDuration)

(* the parent renders the toast with the other value of show *)
ShowChanges ==
    /\ toast.mounted
    /\ toast' = ToastEffect(
                    [ToastEffectCleanup(toast) EXCEPT !.show = ~toast.show])
    /\ UNCHANGED <<callVars, translator, view>>

(* a click on the close button, which is there while isVisible *)
CloseClick ==
    /\ toast.mounted
    /\ toast.isVisible
    /\ Cardinality(toast.timers) < MaxToastTimers
    /\ toast' = ToastHandleClose(toast)
    /\ UNCHANGED <<callVars, translator, view>>

DurationTimerFires ==
    /\ \E timer \in toast.timers :
           /\ timer.kind = "duration"
           /\ timer.remaining = 0
           /\ toast' = ToastHandleClose(
                           [toast EXCEPT !.timers = @ \ {timer},
                                         !.firedUnmounted = @ \/ ~toast.mounted])
    /\ UNCHANGED <<callVars, translator, view>>

CloseTimerFires ==
    /\ \E timer \in toast.timers :
           /\ timer.kind = "close"
           /\ timer.remaining = 0
           /\ toast' = ToastCloseCallback(toast, timer)
    /\ UNCHANGED <<callVars, translator, view>>

(* the parent removes the toast: the effect's cleanup runs *)
UnmountToast ==
    /\ toast.mounted
    /\ toast' = [ToastEffectCleanup(toast) EXCEPT !.mounted = FALSE]
    /\ UNCHANGED <<callVars, translator, view>>

(* a moment passes, or the time to the next timer if that is sooner *)
ToastTimePasses ==
    /\ toast.timers # {}
    /\ \A timer \in toast.timers : timer.remaining > 0
    /\ LET passed ==
               CHOOSE ms \in {timer.remaining : timer \in toast.timers}
                              \cup {MomentMs} :
                   /\ ms <= MomentMs
                   /\ \A timer \in toast.timers : ms <= timer.remaining
       IN  toast' =
               [toast EXCEPT
                    !.shownMs = Min(toast.duration + CloseDelay, @ + passed),
                    !.timers = {[timer EXCEPT !.remaining = @ - passed] :
                                timer \in @}]
    /\ UNCHANGED <<callVars, translator, view>>

NextToast ==
    \/ ShowChanges
    \/ CloseClick
    \/ DurationTimerFires
    \/ CloseTimerFires
    \/ UnmountToast
    \/ ToastTimePasses

SpecToast == InitToast /\ [][NextToast]_vars

(* ------------------------------------------------------------------ *)
(* TranslationOutput: its parent, the user and the clock               *)
(* ------------------------------------------------------------------ *)
InitOutput ==
    /\ Idle
    /\ translator = <<>>
    /\ toast = <<>>
    /\ \E output \in Outputs : view = TranslationOutputMounted(output)

(* the parent renders the component with another output *)
OutputChanges ==
    /\ \E output \in Outputs \ {view.output} :
           view' = [view EXCEPT !.output = output]
    /\ UNCHANGED <<callVars, translator, toast>>

(* a click on one of the copy buttons *)
CopyClick ==
    /\ Cardinality(view.timers) < MaxCopyTimers
    /\ \E index \in CopyButtons(view), clipboard \in BOOLEAN, fallback \in BOOLEAN :
           view' = handleCopy(view, index, clipboard, fallback)
    /\ UNCHANGED <<callVars, translator, toast>>

(* setCopiedIndex(null) *)
CopyTimerFires ==
    /\ \E timer \in view.timers :
           /\ timer.remaining = 0
           /\ view' = [view EXCEPT !.timers = @ \ {timer},
                                   !.copiedIndex = NullIndex]
    /\ UNCHANGED <<callVars, translator, toast>>

(* a moment passes, or the time to the next timer if that is sooner *)
OutputTimePasses ==
    /\ view.timers # {}
    /\ \A timer \in view.timers : timer.remaining > 0
    /\ LET passed ==
               CHOOSE ms \in {timer.remaining : timer \in view.timers}
                              \cup {CopyMomentMs} :
                   /\ ms <= CopyMomentMs
                   /\ \A timer \in view.timers : ms <= timer.remaining
       IN  view' = [view EXCEPT
                        !.timers = {[timer EXCEPT !.remaining = @ - passed] :
                                    timer \in @}]
    /\ UNCHANGED <<callVars, translator, toast>>

NextOutput ==
    \/ OutputChanges
    \/ CopyClick
    \/ CopyTimerFires
    \/ OutputTimePasses

SpecOutput == InitOutput /\ [][NextOutput]_vars

(* ================================================================== *)
(* Properties                                                          *)
(* ================================================================== *)
Range(f) == {f[i] : i \in DOMAIN f}

Decoding == op = "morse_to_english"

(* the string has a space that strip() does not remove *)
HasInteriorSpace(s) == \E i \in DOMAIN strip(s) : strip(s)[i] = " "

(* The tokens of s: its maximal non-empty runs of characters other than *)
(* the space, in order.                                                 *)
TokenStarts(s) ==
    {i \in DOMAIN s : s[i] # " " /\ (i = 1 \/ s[i - 1] = " ")}

TokenEnd(s, i) ==
    CHOOSE j \in i..Len(s) :
        /\ \A m \in i..j : s[m] # " "
        /\ (j = Len(s) \/ s[j + 1] = " ")

NthStart(s, k) ==
    CHOOSE i \in TokenStarts(s) :
        Cardinality({j \in TokenStarts(s) : j < i}) = k - 1

TokensOf(s) ==
    [k \in 1..Cardinality(TokenStarts(s)) |->
        SubSeq(s, NthStart(s, k), TokenEnd(s, NthStart(s, k)))]

(* the symbol the Code Table gives pattern p *)
SymbolOf(p) == CHOOSE c \in Symbols : MORSE_CODE_DICT[c] = p

(* The pieces a set K of cut points makes of s, in order. *)
CutBounds(s, K) == K \cup {0, Len(s)}

NthBound(s, K, k) ==
    CHOOSE b \in CutBounds(s, K) :
        Cardinality({x \in CutBounds(s, K) : x < b}) = k - 1

PiecesOf(s, K) ==
    [k \in 1..(Cardinality(CutBounds(s, K)) - 1) |->
        SubSeq(s, NthBound(s, K, k) + 1, NthBound(s, K, k + 1))]

CutSets(s) == SUBSET (1..(Len(s) - 1))

(* the cuts of s all of whose pieces are patterns of the Code Table *)
ValidCuts(s) ==
    {K \in CutSets(s) : \A k \in DOMAIN PiecesOf(s, K) :
                            PiecesOf(s, K)[k] \in Patterns}

SymbolsOfCut(s, K) ==
    [k \in DOMAIN PiecesOf(s, K) |-> SymbolOf(PiecesOf(s, K)[k])]

(* every character of s, upper-cased, is a key of the Code Table *)
SupportedText(s) == \A i \in DOMAIN s : UpperChar(s[i]) \in Symbols

(* C1 (as stated): for every text over the supported alphabet, the      *)
(* results of decode(encode(text)) contain the upper-cased text.        *)
C1_RoundTripOriginal ==
    (op = "round_trip" /\ SupportedText(arg)) => upper(arg) \in Range(ret)

(* C1 (amended): for every text over the supported alphabet, the        *)
(* results of decode(encode(text)) contain the upper-cased text with    *)
(* its leading and trailing spaces removed.                             *)
C1_RoundTripTrimmed ==
    (op = "round_trip" /\ SupportedText(arg))
        => strip(upper(arg)) \in Range(ret)

C1_Witness ==
    /\ op = "round_trip"
    /\ arg = <<" ", "o", " ", "S">>
    /\ via = <<"-", "-", "-", " ", "/", " ", ".", ".", ".">>
    /\ ret = << <<"O", " ", "S">> >>

(* C2: for an input without a space, every cut of the input into       *)
(* consecutive Code Table patterns gives a string of symbols that is    *)
(* one of the decode results.                                           *)
C2_UnspacedComplete ==
    (Decoding /\ \A i \in DOMAIN arg : arg[i] # " ")
        => \A K \in ValidCuts(arg) : SymbolsOfCut(arg, K) \in Range(ret)

C2_Witness ==
    /\ Decoding
    /\ arg = <<".", "-", ".">>
    /\ {<<"E", "T", "E">>, <<"E", "N">>, <<"A", "E">>, <<"R">>} \subseteq Range(ret)

(* C3: a delimited input (one with an interior space) decodes to at     *)
(* most one string: exactly one when every token is a known pattern,    *)
(* none when some token is not.                                         *)
AllTokensKnown(s) ==
    \A k \in DOMAIN TokensOf(strip(s)) : TokensOf(strip(s))[k] \in Patterns

C3_DelimitedAtMostOne ==
    (Decoding /\ HasInteriorSpace(arg))
        => /\ Len(ret) <= 1
           /\ Len(ret) = 1 <=> AllTokensKnown(arg)

C3_Witness ==
    /\ Decoding
    /\ arg = <<".", " ", "x", "-">>
    /\ ret = <<>>

(* C4: decode raises nothing for any input, returns a collection of     *)
(* strings, and returns the empty collection when the input has no      *)
(* segmentation into known patterns.                                    *)
Raised(results) ==
    \E i \in DOMAIN results : \E j \in DOMAIN results[i] :
        results[i][j] = KeyError

NoSegmentation(s) ==
    /\ strip(s) # <<>>
    /\ IF HasInteriorSpace(s)
       THEN ~AllTokensKnown(s)
       ELSE ValidCuts(strip(s)) = {}

C4_DecodeNeverRaises ==
    Decoding
        => /\ ret \in Seq(Seq(Symbols))
           /\ ~Raised(ret)
           /\ NoSegmentation(arg) => ret = <<>>

C4_Witness ==
    /\ Decoding
    /\ arg = <<"-", "x", ".">>
    /\ ret = <<>>

(* C5: decode of the empty string, and of a string that strip() leaves  *)
(* empty, returns exactly one result, the empty string; an unparseable  *)
(* input returns none, so the two differ in size.                       *)
C5_EmptyDecodesToEmptyString ==
    Decoding
        => /\ (\A i \in DOMAIN arg : arg[i] \in Whitespace)
                  => ret = << <<>> >>
           /\ NoSegmentation(arg) => Len(ret) = 0

C5_Witness ==
    /\ Decoding
    /\ arg = <<" ", "\t">>
    /\ ret = << <<>> >>

(* C6: decoding the unseparated patterns of a word of letters and       *)
(* digits gives the word among the results; "...---..." gives "SOS"     *)
(* and more than one result.                                            *)
C6_WordAmongResults ==
    op = "decode_word"
        => /\ arg \in Range(ret)
           /\ via = SosUnspaced
                  => (<<"S", "O", "S">> \in Range(ret) /\ Len(ret) > 1)

C6_Witness ==
    /\ op = "decode_word"
    /\ arg = <<"S", "O", "S">>
    /\ via = SosUnspaced
    /\ <<"S", "O", "S">> \in Range(ret)
    /\ Len(ret) > 1

(* the supported characters of s, in order *)
SupportedOf(s) == SelectSeq(s, LAMBDA c : c \in Symbols)

SpacesIn(s) == Cardinality({i \in DOMAIN s : s[i] = " "})

(* the output is the patterns of the supported characters of text, in   *)
(* order, a space giving "/", separated by exactly one space            *)
EncodesCharByChar(text, out) ==
    /\ Len(TokensOf(out)) = Len(SupportedOf(text))
    /\ \A k \in DOMAIN TokensOf(out) :
           /\ TokensOf(out)[k] = MORSE_CODE_DICT[SupportedOf(text)[k]]
           /\ SupportedOf(text)[k] = " " => TokensOf(out)[k] = <<"/">>
    /\ SpacesIn(out) =
           (IF Len(TokensOf(out)) = 0 THEN 0 ELSE Len(TokensOf(out)) - 1)

(* C7 (as stated): encode maps each supported character of the          *)
(* upper-cased text to its pattern, a space to "/", joined in order by  *)
(* single spaces; encode("HELLO WORLD") is the documented string.       *)
C7_EncodeOriginal ==
    op = "english_to_morse"
        => /\ EncodesCharByChar(upper(arg), ret)
           /\ arg = HelloWorldText => ret = HelloWorldMorse

(* C7 (amended): encode maps each supported character of the            *)
(* upper-cased text, after its leading and trailing whitespace is       *)
(* removed, to its pattern, a space to "/", joined in order by single   *)
(* spaces; encode("HELLO WORLD") is the documented string.              *)
C7_EncodeTrimmed ==
    op = "english_to_morse"
        => /\ EncodesCharByChar(strip(upper(arg)), ret)
           /\ arg = HelloWorldText => ret = HelloWorldMorse

C7_Witness ==
    /\ op = "english_to_morse"
    /\ arg = HelloWorldText
    /\ ret = HelloWorldMorse

(* C8: a delimited input whose tokens are all known patterns or "/"     *)
(* decodes to exactly one string, the symbols of its tokens in order,   *)
(* "/" giving a space; the documented Morse of HELLO WORLD decodes to   *)
(* exactly "HELLO WORLD".                                               *)
TokenSymbols(s) ==
    [k \in DOMAIN TokensOf(strip(s)) |->
        IF TokensOf(strip(s))[k] = <<"/">>
        THEN " "
        ELSE SymbolOf(TokensOf(strip(s))[k])]

C8_DelimitedExact ==
    Decoding
        => /\ (HasInteriorSpace(arg) /\ AllTokensKnown(arg))
                  => ret = <<TokenSymbols(arg)>>
           /\ arg = HelloWorldMorse => ret = <<HelloWorldText>>

C8_Witness ==
    /\ Decoding
    /\ arg = HelloWorldMorse
    /\ ret = <<HelloWorldText>>

(* C9 (as stated): validate_morse_code is true exactly when every       *)
(* character of the trimmed string is a dot, a dash, a space or "/".    *)
MorseAlphabet == {".", "-", " ", "/"}

C9_ValidateTrimmedOriginal ==
    op = "validate_morse_code"
        => (ret <=> \A i \in DOMAIN strip(arg) : strip(arg)[i] \in MorseAlphabet)

(* C9 (amended): validate_morse_code is true exactly when every         *)
(* character of the string as given, untrimmed, is a dot, a dash, a     *)
(* space or "/"; a leading or trailing tab makes it false, "abc" and    *)
(* "123" are rejected and "... --- ..." is accepted.                    *)
C9_ValidateUntrimmed ==
    op = "validate_morse_code"
        => /\ ret = FALSE <=> \E i \in DOMAIN arg : arg[i] \notin MorseAlphabet
           /\ arg \in {<<"a", "b", "c">>, <<"1", "2", "3">>} => ret = FALSE
           /\ arg = SosSpaced => ret = TRUE

C9_Witness ==
    /\ op = "validate_morse_code"
    /\ arg = <<"\t", ".", "-">>
    /\ ret = FALSE

(* C10: the output of encode never starts or ends with a space, never   *)
(* has two spaces in a row, and has one pattern per supported character *)
(* of the trimmed text and nothing for an unsupported one.              *)
C10_NoDanglingSeparator ==
    op = "english_to_morse"
        => /\ ret # <<>> => (ret[1] # " " /\ ret[Len(ret)] # " ")
           /\ \A i \in 1..(Len(ret) - 1) : ~(ret[i] = " " /\ ret[i + 1] = " ")
           /\ \A k \in DOMAIN TokensOf(ret) : TokensOf(ret)[k] \in Patterns
           /\ Len(TokensOf(ret)) =
                  Cardinality({i \in DOMAIN strip(upper(arg)) :
                                   strip(upper(arg))[i] \in Symbols})

C10_Witness ==
    /\ op = "english_to_morse"
    /\ arg = <<"S", " ", "#", " ">>
    /\ ret = <<".", ".", ".", " ", "/">>

(* the characters of ASCII the explored texts use *)
AsciiChars == TextChars \cup Symbols \cup Range(LowerLetters)

(* C11 (as stated): encode gives the same output for a text, for its    *)
(* upper-case form and for its lower-case form, and the empty string    *)
(* for the empty text.                                                  *)
C11_CaseInsensitiveOriginal ==
    op = "encode_cases"
        => /\ ret[1] = ret[2]
           /\ ret[1] = ret[3]
           /\ arg = <<>> => ret[1] = <<>>

(* C11 (amended): for every text of ASCII characters, encode gives the  *)
(* same output for the text, for its upper-case form and for its        *)
(* lower-case form, and the empty string for the empty text.            *)
C11_CaseInsensitiveAscii ==
    (op = "encode_cases" /\ \A i \in DOMAIN arg : arg[i] \in AsciiChars)
        => /\ ret[1] = ret[2]
           /\ ret[1] = ret[3]
           /\ arg = <<>> => ret[1] = <<>>

C11_Witness ==
    /\ op = "encode_cases"
    /\ arg = <<"o", " ", "S">>
    /\ ret[1] = <<"-", "-", "-", " ", "/", " ", ".", ".", ".">>
    /\ ret[2] = ret[1]
    /\ ret[3] = ret[1]

(* the values op takes *)
Ops ==
    {"idle", "english_to_morse", "encode_cases", "morse_to_english",
     "decode_word", "round_trip", "validate_morse_code",
     "translate_english_to_morse", "translate_morse_to_english",
     "translateEnglishToMorse", "translateMorseToEnglish"}

(* the table is one-to-one and the inverse table holds exactly its      *)
(* reversed pairs                                                       *)
TableInjectiveInverseExact ==
    /\ \A c, d \in DOMAIN MORSE_CODE_DICT :
           MORSE_CODE_DICT[c] = MORSE_CODE_DICT[d] => c = d
    /\ Cardinality(DOMAIN REVERSE_MORSE_DICT)
           = Cardinality(DOMAIN MORSE_CODE_DICT)
    /\ \A c \in DOMAIN MORSE_CODE_DICT :
           /\ MORSE_CODE_DICT[c] \in DOMAIN REVERSE_MORSE_DICT
           /\ REVERSE_MORSE_DICT[MORSE_CODE_DICT[c]] = c

(* C12: in every state, whatever calls were made, no two symbols of the *)
(* Code Table share a pattern, the inverse table has as many entries as *)
(* the forward table, and the inverse of a symbol's pattern is the      *)
(* symbol.                                                              *)
C12_TableInjectiveInverseExact ==
    op \in Ops /\ TableInjectiveInverseExact

C12_Witness ==
    /\ op = "round_trip"
    /\ arg = <<"S", " ", "1">>
    /\ ret = << <<"S", " ", "1">> >>
    /\ REVERSE_MORSE_DICT[MORSE_CODE_DICT["S"]] = "S"

DotDash(p) == \A i \in DOMAIN p : p[i] \in {".", "-"}

(* C13 (as stated): every pattern of the Code Table and of the          *)
(* reference chart is a non-empty string of dots and dashes of length   *)
(* at most 6, so neither the space nor "/" is, or is inside, a pattern. *)
C13_PatternsOriginal ==
    op = "english_to_morse"
        => /\ \A p \in Patterns \cup ChartPatterns :
                  p # <<>> /\ DotDash(p) /\ Len(p) <= 6
           /\ \A k \in DOMAIN TokensOf(ret) :
                  DotDash(TokensOf(ret)[k]) /\ Len(TokensOf(ret)[k]) <= 6

(* the stored patterns: "/" for the space, dots and dashes otherwise *)
StoredPatternsWellFormed ==
    /\ \A c \in DOMAIN MORSE_CODE_DICT :
           IF c = " "
           THEN MORSE_CODE_DICT[c] = <<"/">>
           ELSE /\ MORSE_CODE_DICT[c] # <<>>
                /\ DotDash(MORSE_CODE_DICT[c])
                /\ Len(MORSE_CODE_DICT[c]) <= 6
    /\ \A p \in ChartPatterns : p # <<>> /\ DotDash(p) /\ Len(p) <= 7

(* C13 (amended): every pattern of the Code Table other than "/", the   *)
(* pattern of the space, and every pattern of the reference chart is a  *)
(* non-empty string of dots and dashes; table patterns have length at   *)
(* most 6 and chart patterns at most 7; no pattern contains a space,    *)
(* and "/" occurs in the table only as the whole pattern of the space.  *)
(* So each token encode emits is "/" or at most 6 dots and dashes.      *)
C13_PatternsExceptSeparator ==
    /\ StoredPatternsWellFormed
    /\ op = "english_to_morse"
           => \A k \in DOMAIN TokensOf(ret) :
                  \/ TokensOf(ret)[k] = <<"/">>
                  \/ /\ DotDash(TokensOf(ret)[k])
                     /\ Len(TokensOf(ret)[k]) <= 6

C13_Witness ==
    /\ op = "english_to_morse"
    /\ arg = <<"1", " ", "S">>
    /\ ret = <<".", "-", "-", "-", "-", " ", "/", " ", ".", ".", ".">>

(* C14: every character the README and the reference chart list as      *)
(* supported is a key of the Code Table with the pattern of the chart,  *)
(* so encode of that character alone is the chart's pattern.            *)
C14_ChartCharsEncoded ==
    op = "english_to_morse"
        => \A i \in DOMAIN morseCode :
               arg = <<morseCode[i][1]>>
                   => /\ morseCode[i][1] \in DOMAIN MORSE_CODE_DICT
                      /\ ret = morseCode[i][2]

(* the chart's letters and digits are encoded to the chart's patterns *)
C14_LettersAndDigitsAgree ==
    op = "english_to_morse"
        => \A i \in DOMAIN morseCode :
               (arg = <<morseCode[i][1]>> /\ arg[1] \in LettersAndDigits)
                   => ret = morseCode[i][2]

NoRepeats(results) == Cardinality(Range(results)) = Len(results)

(* where r first occurs in results *)
FirstIndex(results, r) ==
    CHOOSE i \in DOMAIN results :
        results[i] = r /\ \A j \in 1..(i - 1) : results[j] # r

(* out keeps the order in which its strings first occur in results *)
FirstSeenOrder(out, results) ==
    \A i, j \in DOMAIN out :
        i < j => /\ out[i] \in Range(results)
                 /\ out[j] \in Range(results)
                 /\ FirstIndex(results, out[i]) < FirstIndex(results, out[j])

(* the interpretations a successful response carries, as a list *)
OutputList(response) ==
    IF response.is_list THEN response.output ELSE <<response.output>>

(* C15: the collection decode returns has no string twice; the          *)
(* endpoint's filtered results are the non-empty decode results, each   *)
(* once, in the order of their first occurrence.                        *)
C15_NoDuplicatesStableOrder ==
    /\ op \in {"morse_to_english", "decode_word", "round_trip"}
           => NoRepeats(ret)
    /\ (op = "translate_morse_to_english" /\ ret.status = HTTP_200_OK)
           => /\ NoRepeats(OutputList(ret))
              /\ Range(OutputList(ret)) = Range(via) \ {<<>>}
              /\ FirstSeenOrder(OutputList(ret), via)

C15_Witness ==
    /\ op = "translate_morse_to_english"
    /\ arg = SosUnspaced
    /\ ret.status = HTTP_200_OK
    /\ Len(via) = 216
    /\ ret.output = via

(* C18: a request that yields nothing is answered with status 400 and   *)
(* the "no translatable characters" / "no valid translation" detail:    *)
(* english_to_morse returned "", or morse_to_english returned [] or     *)
(* [""].                                                                *)
C18_NothingYieldsStatus400 ==
    /\ (/\ op = "translate_english_to_morse"
        /\ ret.status # HTTP_422_UNPROCESSABLE_ENTITY
        /\ via = <<>>)
           => /\ ret.status = HTTP_400_BAD_REQUEST
              /\ ret.detail = NoTranslatableDetail
    /\ (/\ op = "translate_morse_to_english"
        /\ ret.status # HTTP_422_UNPROCESSABLE_ENTITY
        /\ ret.detail # InvalidFormatDetail
        /\ (via = <<>> \/ via = << <<>> >>))
           => /\ ret.status = HTTP_400_BAD_REQUEST
              /\ ret.detail = NoValidTranslationDetail

(* C19: a successful Morse-to-English response carries a plain string   *)
(* exactly when decode gave one distinct non-empty interpretation, and  *)
(* otherwise a list of at least two distinct non-empty strings in       *)
(* first-seen order; never an empty list.                               *)
C19_StringOrList ==
    (op = "translate_morse_to_english" /\ ret.status = HTTP_200_OK)
        => /\ ~ret.is_list <=> Cardinality(Range(via) \ {<<>>}) = 1
           /\ ~ret.is_list => <<ret.output>> = SelectSeq(via, LAMBDA r : r # <<>>)
           /\ ret.is_list
                  => /\ Len(ret.output) >= 2
                     /\ NoRepeats(ret.output)
                     /\ \A i \in DOMAIN ret.output : ret.output[i] # <<>>
                     /\ FirstSeenOrder(ret.output, via)

C19_Witness ==
    /\ op = "translate_morse_to_english"
    /\ arg = <<" ", ".", "-">>
    /\ ret.status = HTTP_200_OK
    /\ ret.is_list
    /\ ret.output = << <<"E", "T">>, <<"A">> >>

(* the first position at which two different strings differ *)
FirstDifference(r1, r2) ==
    CHOOSE k \in 1..Len(r1) :
        /\ k <= Len(r2)
        /\ r1[k] # r2[k]
        /\ \A m \in 1..(k - 1) : r1[m] = r2[m]

(* r1 comes before r2 in depth-first, shortest-match-first order: where *)
(* their segmentations first part, r1 takes the shorter pattern         *)
ShorterMatchFirst(r1, r2) ==
    /\ \E k \in 1..Len(r1) :
           k <= Len(r2) /\ r1[k] # r2[k] /\ \A m \in 1..(k - 1) : r1[m] = r2[m]
    /\ Len(MORSE_CODE_DICT[r1[FirstDifference(r1, r2)]])
           < Len(MORSE_CODE_DICT[r2[FirstDifference(r1, r2)]])

(* C16: the results of decoding an input without a space come in        *)
(* depth-first, shortest-match-first order: of two results, the earlier *)
(* one takes the shorter pattern where their segmentations first part.  *)
(* The order is fixed by the strings themselves, so it is the same on   *)
(* every call.                                                          *)
C16_ShortestMatchFirstOrder ==
    (op = "morse_to_english" /\ \A i \in DOMAIN arg : arg[i] # " ")
        => \A i, j \in DOMAIN ret : i < j => ShorterMatchFirst(ret[i], ret[j])

C16_Witness ==
    /\ op = "morse_to_english"
    /\ arg = <<".", "-", ".">>
    /\ ret = << <<"E", "T", "E">>, <<"E", "N">>, <<"A", "E">>, <<"R">> >>

VeInterpretations ==
    << <<"E", "E", "E", "T", "E">>,
       <<"E", "E", "E", "N">>,
       <<"E", "E", "A", "E">>,
       <<"E", "E", "R">>,
       <<"E", "I", "T", "E">>,
       <<"E", "I", "N">>,
       <<"E", "U", "E">>,
       <<"E", "F">>,
       <<"I", "E", "T", "E">>,
       <<"I", "E", "N">>,
       <<"I", "A", "E">>,
       <<"I", "R">>,
       <<"S", "T", "E">>,
       <<"S", "N">>,
       <<"V", "E">> >>

C20_ValidationMessageReachesCaller ==
    (op \in {"translateEnglishToMorse", "translateMorseToEnglish"}
         /\ arg.present
         /\ arg.status = HTTP_422_UNPROCESSABLE_ENTITY
         /\ arg.detail_is_array)
        => /\ ret.thrown
           /\ ret.message = ValidationErrorMessage(arg.detail)
           /\ ret.message \notin {<<EnglishToMorseFallback>>,
                                  <<MorseToEnglishFallback>>}

(* ------------------------------------------------------------------ *)
(* MorseTranslator (SpecTranslator)                                    *)
(* ------------------------------------------------------------------ *)
AutoRequests(s) == {r \in s.requests : r.by = "auto"}

ManualRequests(s) == {r \in s.requests : r.by = "manual"}

(* at most one timer is pending, it is the one the ref names and it is  *)
(* for the current input and mode; nothing blank is waiting or in flight *)
OneCurrentTimer ==
    /\ Cardinality(translator.timers) <= 1
    /\ \A timer \in translator.timers :
           /\ timer.id = translator.debounceTimerRef
           /\ timer.input = translator.input
           /\ timer.mode = translator.mode
           /\ ~Blank(timer.input)
    /\ \A request \in translator.requests : ~Blank(request.input)

(* a step that sends an auto-translate request sends it for the input  *)
(* and mode of that moment, unchanged for the whole debounce period    *)
SentAfterQuietPeriod ==
    \A request \in AutoRequests(translator') \ AutoRequests(translator) :
        /\ request.input = translator.input
        /\ request.mode = translator.mode
        /\ translator.unchangedMs >= DebounceMs
        /\ ~Blank(request.input)

(* C21: debounced auto-translate.  At most one debounce timer is        *)
(* pending, a change of input or mode cancels the timer of the value    *)
(* before, a request is sent only for an input and mode that stayed     *)
(* unchanged for 500 ms, and never for an input that is blank after     *)
(* trimming.                                                            *)
C21_DebouncedAutoTranslate ==
    [](OneCurrentTimer) /\ [][SentAfterQuietPeriod]_vars

C21_Witness ==
    /\ translator.input = <<".", ".">>
    /\ translator.timers = {}
    /\ translator.unchangedMs = DebounceMs
    /\ Request("auto", <<".", ".">>, MorseToEnglishMode) \in translator.requests

(* isLoading is true exactly while a manual request is in flight *)
LoadingWhileManualInFlight ==
    translator.isLoading <=> ManualRequests(translator) # {}

(* handleTranslate on a blank input: output and messages are cleared, *)
(* isLoading is not touched and nothing is sent                       *)
BlankTranslateOnlyClears ==
    Blank(translator.input)
        => LET after == handleTranslate(translator)
           IN  /\ Falsy(after.output)
               /\ after.error = <<>>
               /\ after.success = <<>>
               /\ after.isLoading = translator.isLoading
               /\ after.requests = translator.requests

(* a step that sends a manual request sets isLoading and clears the   *)
(* messages; a step that settles one resets isLoading and shows the   *)
(* server's output or, on failure, the error and no output            *)
ManualTranslateSteps ==
    /\ \A request \in ManualRequests(translator') \ ManualRequests(translator) :
           /\ ~Blank(request.input)
           /\ request.input = translator.input
           /\ translator'.isLoading
           /\ translator'.error = <<>>
           /\ translator'.success = <<>>
    /\ \A request \in ManualRequests(translator) \ ManualRequests(translator') :
           /\ ~translator'.isLoading
           /\ \E result \in {TimedOut(request), TranslationResult(request, TRUE)} :
                  IF result.thrown
                  THEN /\ translator'.error = ErrorMessage(result)
                       /\ translator'.error # <<>>
                       /\ Falsy(translator'.output)
                  ELSE /\ translator'.error = translator.error
                       /\ translator'.output.is_array
                              = (request.mode = MorseToEnglishMode)
                       /\ translator'.output.value
                              = IF request.mode = MorseToEnglishMode
                                   /\ ~result.is_array
                                THEN <<result.output>>
                                ELSE result.output

(* C22: manual translate.  A handleTranslate call on a non-blank input  *)
(* sets isLoading and the flag goes back to false when the request      *)
(* settles, with success or failure; on failure the output is cleared   *)
(* and the error message set; on a blank input the call clears output   *)
(* and messages and does not touch isLoading.                           *)
C22_ManualTranslate ==
    /\ [](LoadingWhileManualInFlight /\ BlankTranslateOnlyClears)
    /\ [][ManualTranslateSteps]_vars
    /\ (translator.isLoading ~> ~translator.isLoading)

C22_Witness ==
    /\ translator.isLoading
    /\ translator.error = <<>>
    /\ translator.requests = {Request("manual", <<".", ".">>, MorseToEnglishMode)}

(* the text the Swap button moves: the output string, or the first *)
(* interpretation of an output list                                *)
SwapText(output) ==
    IF ~output.is_array THEN output.value
    ELSE IF Len(output.value) > 0 THEN output.value[1]
    ELSE <<>>

(* handleSwap of the later version applied to the state at hand *)
SwapMovesOutputToInput ==
    translator.version = "later"
        => LET after == handleSwap(translator)
               text == SwapText(translator.output)
           IN  IF ~Blank(text)
               THEN /\ after.mode # translator.mode
                    /\ after.mode \in Modes
                    /\ after.input = text
                    /\ after.error = <<>>
                    /\ after.success = <<>>
                    /\ after.output = translator.output
               ELSE /\ after.mode = translator.mode
                    /\ after.input = translator.input
                    /\ after.output = translator.output
                    /\ after.error = translator.error
                    /\ after.success = translator.success

(* after a click on Swap the debounce timer waits with the swapped *)
(* input and the new mode                                          *)
SwapTriggersReverse ==
    (Swap /\ translator.version = "later")
        => /\ translator'.input = SwapText(translator.output)
           /\ translator'.mode # translator.mode
           /\ \E timer \in translator'.timers :
                  /\ timer.input = translator'.input
                  /\ timer.mode = translator'.mode
                  /\ timer.remaining = DebounceMs

(* C23: handleSwap of the later version.  With a non-blank output      *)
(* string, or an output list whose first element is non-blank, it      *)
(* toggles the mode, makes that text the input and clears both         *)
(* messages, and the reverse translation is scheduled; with a blank    *)
(* output or an empty list it changes neither mode, input, output nor  *)
(* messages.                                                           *)
C23_SwapLaterVersion ==
    [](SwapMovesOutputToInput) /\ [][SwapTriggersReverse]_vars

C23_Witness ==
    /\ translator.version = "later"
    /\ translator.output.is_array
    /\ Len(translator.output.value) > 1
    /\ translator.input = translator.output.value[1]
    /\ translator.mode = EnglishToMorseMode
    /\ translator.error = <<>>
    /\ translator.success = <<>>
    /\ translator.timers # {}

(* what the output shows for a settled translation of the input at hand *)
ShownTranslation(s) ==
    LET result == TranslationResult(Request("auto", s.input, s.mode), TRUE)
    IN  IF result.thrown THEN StringOutput(<<>>)
        ELSE IF s.mode = EnglishToMorseMode THEN StringOutput(result.output)
        ELSE IF result.is_array THEN ArrayOutput(result.output)
        ELSE ArrayOutput(<<result.output>>)

(* a request settles that was sent for another input or mode than the *)
(* current one: nothing that is shown changes                         *)
StaleResponseIgnored ==
    \A request \in translator.requests \ translator'.requests :
        (request.input # translator.input \/ request.mode # translator.mode)
            => /\ translator'.output = translator.output
               /\ translator'.error = translator.error
               /\ translator'.success = translator.success

BlankInputEmptyOutput ==
    Blank(translator.input) => Falsy(translator.output)

(* nothing waits and nothing is in flight: the output is the *)
(* translation of the input, or empty next to an error       *)
QuiescentOutputCurrent ==
    (/\ translator.requests = {}
     /\ translator.timers = {}
     /\ ~Blank(translator.input)
     /\ translator.error = <<>>)
        => translator.output = ShownTranslation(translator)

(* C27: no stale result is shown.  A response to a request sent for an *)
(* earlier input or mode never changes output, error or success; while *)
(* the input is blank the output stays empty; when nothing is pending  *)
(* the output is the translation of the current input in the current   *)
(* mode.                                                               *)
C27_NoStaleResult ==
    /\ [](BlankInputEmptyOutput)
    /\ [][StaleResponseIgnored]_vars
    /\ [](QuiescentOutputCurrent)

(* C28: error and success are never both non-empty, and success is   *)
(* non-empty only next to an output list of more than one            *)
(* interpretation.                                                   *)
C28_MessagesExclusive ==
    /\ ~(translator.error # <<>> /\ translator.success # <<>>)
    /\ translator.success # <<>>
           => /\ translator.output.is_array
              /\ Len(translator.output.value) > 1

(* the Code Table patterns of r's characters, put together without *)
(* separators                                                      *)
PatternsOf(r) == Flatten([i \in DOMAIN r |-> MORSE_CODE_DICT[r[i]]])

NoSpaceIn(s) == \A i \in DOMAIN s : s[i] # " "

(* C24 (as stated): for an input c without a space, the patterns of   *)
(* every result r put together give exactly c, and r has between 1    *)
(* and length(c) characters when c is not empty.                      *)
C24_UnspacedSoundOriginal ==
    (Decoding /\ NoSpaceIn(arg))
        => \A r \in Range(ret) :
               /\ PatternsOf(r) = arg
               /\ arg # <<>> => (1 <= Len(r) /\ Len(r) <= Len(arg))

(* C24 (amended): for an input without an interior space, the         *)
(* patterns of every result r put together give exactly the input     *)
(* with its leading and trailing whitespace removed, and r has        *)
(* between 1 and that many characters when the trimmed input is not   *)
(* empty.                                                             *)
C24_UnspacedSoundTrimmed ==
    (Decoding /\ ~HasInteriorSpace(arg))
        => \A r \in Range(ret) :
               /\ \A i \in DOMAIN r : r[i] \in Symbols
               /\ PatternsOf(r) = strip(arg)
               /\ strip(arg) # <<>>
                      => (1 <= Len(r) /\ Len(r) <= Len(strip(arg)))

C24_Witness ==
    /\ Decoding
    /\ arg = <<".", "-", "\t">>
    /\ ret = << <<"E", "T">>, <<"A">> >>

(* C25: an input of dots and dashes only, not empty, has at least one *)
(* result; an input with no result has a space, a "/" or a character  *)
(* that is neither dot nor dash.                                      *)
C25_DotDashAlwaysDecodes ==
    Decoding
        => /\ (arg # <<>> /\ \A i \in DOMAIN arg : arg[i] \in {".", "-"})
                  => Len(ret) >= 1
           /\ ret = <<>>
                  => \E i \in DOMAIN arg :
                         arg[i] = " " \/ arg[i] = "/" \/ arg[i] \notin {".", "-"}

C25_Witness ==
    /\ Decoding
    /\ arg = <<".", ".", "-", "-">>
    /\ arg \notin Patterns
    /\ <<"E", "E", "T", "T">> \in Range(ret)

(* a recursive call is made with a position beyond the caller's *)
CallAdvances ==
    (op = "decoding" /\ op' = "decoding" /\ Len(via'.stack) > Len(via.stack))
        => /\ Len(via'.stack) = Len(via.stack) + 1
           /\ Top(via').index > Top(via).index
           /\ Top(via').index <= Len(via.units)

(* the positions on the stack grow strictly, so there are at most as *)
(* many nested recursive calls as the input has characters           *)
DepthBounded ==
    op = "decoding"
        => /\ \A k \in 1..(Len(via.stack) - 1) :
                  via.stack[k].index < via.stack[k + 1].index
           /\ Len(via.stack) - 1 <= Len(via.units)
           /\ Len(via.units) <= Len(arg)

(* a call whose position is at the end returns at its next step *)
ReturnsAtEnd ==
    (op = "decoding" /\ AtEnd(via, Top(via)))
        => \/ op' = "decoded"
           \/ op' = "decoding" /\ Len(via'.stack) = Len(via.stack) - 1

(* C26: decoding terminates.  Each recursive call is made with a      *)
(* position strictly beyond its caller's, the number of nested        *)
(* recursive calls never exceeds the length of the input, a call at   *)
(* the end of the sequence returns, and every decoding that was begun *)
(* comes to its result, which is the list morse_to_english gives.     *)
C26_DecodingTerminates ==
    /\ [][CallAdvances /\ ReturnsAtEnd]_vars
    /\ [](DepthBounded)
    /\ [](op = "decoded" => ret = morse_to_english(arg))
    /\ ((op = "decoding") ~> (op = "decoded"))

C26_Witness ==
    /\ op = "decoding"
    /\ arg = <<".", "-", ".">>
    /\ Len(via.stack) = 4
    /\ Top(via).current_translation = <<"E", "T", "E">>

(* a toast that is given show = true is visible *)
ShownToastVisible ==
    (toast.mounted /\ toast'.mounted /\ ~toast.show /\ toast'.show)
        => toast'.isVisible /\ toast'.isAnimating

(* the shown toast is gone when its duration and the closing delay *)
(* have passed                                                     *)
ClosedAfterDuration ==
    (/\ toast.mounted
     /\ toast.show
     /\ toast.shownMs >= toast.duration + CloseDelay
     /\ \A timer \in toast.timers : timer.remaining > 0)
        => ~toast.isVisible

(* onClose is called by the timer of handleClose, hence 300 ms after *)
(* closing starts, and once for one showing                          *)
OnCloseOnce == toast.onCloseCalls <= 1

NoTimerAfterUnmount == ~toast.firedUnmounted

(* C29: Toast lifecycle.  A toast with show = true becomes visible, is *)
(* closed after its duration, its onClose is called once for a         *)
(* showing, 300 ms after closing starts, also when the close button    *)
(* was clicked before the duration elapsed, and no timer of the toast  *)
(* fires after the toast was unmounted.                                *)
C29_ToastLifecycle ==
    /\ [][ShownToastVisible]_vars
    /\ [](ClosedAfterDuration)
    /\ [](OnCloseOnce)
    /\ [](NoTimerAfterUnmount)

(* the entries with a character that is no whitespace, in their order *)
NonBlankEntries(results) ==
    SelectSeq(results, LAMBDA entry :
                           \E i \in DOMAIN entry : entry[i] \notin Whitespace)

ShowsNonBlankEntries ==
    view.output.is_array
        => LET shown == TranslationOutput(view)
               entries == NonBlankEntries(view.output.value)
           IN  /\ shown.items = entries
               /\ Len(entries) = 0 => shown.kind = "placeholder"
               /\ Len(entries) = 1 => shown.kind = "single"
               /\ Len(entries) >= 2
                      => shown.kind = "multiple" /\ shown.header = Len(entries)

AtMostOneMarked == Cardinality(TranslationOutput(view).marked) <= 1

(* a mark never stands without a reset timer that runs out within 2 s *)
MarkHasResetTimer ==
    view.copiedIndex # NullIndex
        => \E timer \in view.timers : timer.remaining <= CopyResetMs

(* a copy starts a timer of 2 s, and the timer's callback resets the mark *)
CopySetsAndResets ==
    LET ids(timers) == {timer.id : timer \in timers}
    IN  /\ view'.copiedIndex # view.copiedIndex /\ view'.copiedIndex # NullIndex
               => \E timer \in view'.timers :
                      /\ timer.id \notin ids(view.timers)
                      /\ timer.remaining = CopyResetMs
        /\ ids(view.timers) \ ids(view'.timers) # {}
               => /\ view'.copiedIndex = NullIndex
                  /\ \E timer \in view.timers :
                         timer.id \notin ids(view'.timers) /\ timer.remaining = 0

(* C30: TranslationOutput shows exactly the non-blank entries of a    *)
(* list output, in order: the placeholder for none, a single result   *)
(* for one, n items under a header with n for n >= 2; copiedIndex     *)
(* marks at most one item and is reset to null 2 s after a copy.      *)
C30_OutputShowsNonBlank ==
    /\ [](ShowsNonBlankEntries /\ AtMostOneMarked /\ MarkHasResetTimer)
    /\ [][CopySetsAndResets]_vars

C30_Witness ==
    /\ view.output = ArrayOutput(<< <<" ">>, <<"E", "E">>, <<"I">> >>)
    /\ view.copiedIndex = ItemIndex(1)
    /\ TranslationOutput(view).header = 2
    /\ TranslationOutput(view).marked = {2}
    /\ \E timer \in view.timers : timer.remaining = CopyMomentMs

====
